---- MODULE Spec2Model ----
(***************************************************************************)
(* Verification model of the 2048 "two 8192 tiles win" framework:          *)
(*   board.h      (src/unnamed/part_001, from line 164) the board engine,  *)
(*   agent.h      (src/unnamed/part_002) the strategic_slider TD agent,    *)
(*   statistics.h (src/statistics.h) the episode window.                   *)
(*                                                                         *)
(* A board is a function 0..15 -> rank, cell i being tile[i / 4][i % 4]    *)
(* exactly as board::operator()(unsigned i) addresses it.                  *)
(*                                                                         *)
(* Floating point: every float of the agent is modelled by an integer.     *)
(* The configurations drawn in Init keep all quantities integral (alpha a  *)
(* multiple of 8, so that alpha * (td_error * 0.125f) is integral; lambda  *)
(* and the eligibility decay in {0, 1}), and float32 arithmetic on         *)
(* integers below 2^24 is exact, so on these configurations the model      *)
(* computes what the code computes.                                        *)
(***************************************************************************)
EXTENDS Integers, Sequences, FiniteSets, Bags, TLC

VARIABLES
    \* the board engine under test
    tile,       \* board::tile of the board under test
    prev,       \* that board before the last operation on it
    ret,        \* the value the last board operation returned
    op,         \* the last board operation: "init", "slide", "place", ...
    \* strategic_slider
    net,                    \* weight_agent::net, the weight tables
    alpha,                  \* weight_agent::alpha
    eligibility_traces,     \* one trace table per weight table
    current_episode,        \* the trajectory, a sequence of GameStep
    enable_learning,
    lambda,
    eligibility_decay,
    danger_penalty_factor,  \* in tenths (7 stands for 0.7f)
    survival_bonus,
    move_count,
    \* the driver
    playing,    \* an episode was opened and is not closed yet
    asked,      \* the number of take_action calls made so far
    \* what the last call of the agent was given and did
    input,      \* the board the last agent call was given
    result,     \* the last agent call and what it returned
    lookups,    \* the boards the last evaluate_board looked every pattern up on
    net0,       \* the weight tables when the last agent call began
    calls,      \* the calls of update_weights_with_td_error the last agent call made
    \* statistics
    total,      \* statistics::total
    block,      \* statistics::block
    limit,      \* statistics::limit
    count,      \* statistics::count
    data,       \* statistics::data, the deque of episode records, front first
    \* the use made of the statistics object
    opened,     \* the number of open_episode calls made on it
    loads,      \* the number of streams read into it
    aborted,    \* the process was ended by a call the code leaves undefined
    \* a second agent, run beside the first on the same calls
    twin,       \* its decay, net, eligibility_traces, current_episode, last action
    \* the process that owns the agent
    process     \* its options, status, exit code, episodes played, files written

boardVars == <<tile, prev, ret, op>>
configVars == <<alpha, lambda, eligibility_decay, danger_penalty_factor, survival_bonus>>
learnVars == <<net, eligibility_traces, current_episode, enable_learning, move_count>>
driverVars == <<playing, asked>>
callVars == <<input, result, lookups, net0, calls>>
agentVars == <<configVars, learnVars, driverVars, callVars>>
statVars == <<total, block, limit, count, data, opened, loads, aborted>>
vars == <<boardVars, agentVars, statVars, twin, process>>

(***************************************************************************)
(* Bounds of the model and program constants.                              *)
(***************************************************************************)
\* input boards of the board engine hold at most MaxTiles tiles (besides the
\* single-line boards, which hold up to four)
MaxTiles == 2

\* the driver asks the agent for at most MaxMoves actions in all
MaxMoves == 2

\* update_weights_with_td_error is called at most MaxUpdates times in a row
MaxUpdates == 2

\* at most MaxTurns rotations, reflections and transpositions in a row
MaxTurns == 4

\* statistics is constructed with total in 1..MaxLimit, limit in 0..MaxLimit
\* and block in 0..MaxLimit - 1
MaxLimit == 3

\* at most MaxEpisodes episodes are opened on one statistics object
MaxEpisodes == 5

\* at most MaxLoads streams of at most MaxLines lines are read into it
MaxLoads == 1

MaxLines == 2

\* a game is followed for at most MaxPlies actions (places and slides)
MaxPlies == 3

\* weights stay within WeightCap in absolute value while the agent is used
WeightCap == 524288

Cells == 0..15
Idx == 0..3

\* ranks of the tiles of the input boards: the two ranks place() accepts and
\* the two ranks the win rule and the danger heuristic look at
TileRanks == {1, 2, 12, 13}

EmptyBoard == [i \in Cells |-> 0]

(***************************************************************************)
(* board.h                                                                 *)
(***************************************************************************)
\* cell& operator()(unsigned i) { return tile[i / 4][i % 4]; }
At(b, r, c) == b[r * 4 + c]

\* std::swap of two cells
Swap(b, i, j) == [b EXCEPT ![i] = b[j], ![j] = b[i]]

\* the board whose cell i holds i: a sequence of swaps moves the cells of any
\* board the way it moves the cells of this one
CellNames == [i \in Cells |-> i]

\* board b with its cells moved as moved says: cell i takes cell moved[i]
Moved(b, moved) == [i \in Cells |-> b[moved[i]]]

\* void reflect_horizontal(): swaps columns 0,3 and 1,2 of every row
RECURSIVE ReflectRows(_, _)
ReflectRows(b, r) ==
    IF r = 4 THEN b
    ELSE ReflectRows(Swap(Swap(b, r * 4 + 0, r * 4 + 3), r * 4 + 1, r * 4 + 2), r + 1)

ReflectHorizontalCells == ReflectRows(CellNames, 0)

reflect_horizontal(b) == Moved(b, ReflectHorizontalCells)

\* void reflect_vertical(): swaps rows 0,3 and 1,2 of every column
RECURSIVE ReflectCols(_, _)
ReflectCols(b, c) ==
    IF c = 4 THEN b
    ELSE ReflectCols(Swap(Swap(b, 0 * 4 + c, 3 * 4 + c), 1 * 4 + c, 2 * 4 + c), c + 1)

ReflectVerticalCells == ReflectCols(CellNames, 0)

reflect_vertical(b) == Moved(b, ReflectVerticalCells)

\* void transpose(): for r, for c = r + 1 .. 3: swap(tile[r][c], tile[c][r])
RECURSIVE TransposeLoop(_, _, _)
TransposeLoop(b, r, c) ==
    IF r = 4 THEN b
    ELSE IF c >= 4 THEN TransposeLoop(b, r + 1, r + 2)
    ELSE TransposeLoop(Swap(b, r * 4 + c, c * 4 + r), r, c + 1)

TransposeCells == TransposeLoop(CellNames, 0, 1)

transpose(b) == Moved(b, TransposeCells)

\* (mutant) the reflection comes first
rotate_clockwise_reflect_first(b) == transpose(reflect_horizontal(b))

\* void rotate_clockwise() { transpose(); reflect_horizontal(); }
rotate_clockwise(b) == reflect_horizontal(transpose(b))

rotate_counterclockwise(b) == reflect_vertical(transpose(b))

reverse(b) == reflect_vertical(reflect_horizontal(b))

(***************************************************************************)
(* slide_left: the scan of one row.  row is the row being rewritten in     *)
(* place, c the column read next, top the next column written, hold the    *)
(* pending tile (0 = none), score the merge score so far.                  *)
(***************************************************************************)
\* (mutant) the merged tile stays pending, so it can merge a second time
RECURSIVE SlideRowScanChained(_, _, _, _, _)
SlideRowScanChained(row, c, top, hold, score) ==
    IF c = 4
    THEN [row |-> IF hold # 0 THEN [row EXCEPT ![top] = hold] ELSE row,
          score |-> score]
    ELSE LET t == row[c] IN
         IF t = 0 THEN SlideRowScanChained(row, c + 1, top, hold, score)
         ELSE LET cleared == [row EXCEPT ![c] = 0] IN
              IF hold # 0
              THEN IF t = hold
                   THEN SlideRowScanChained(cleared, c + 1, top, t + 1, score + 2 ^ (t + 1))
                   ELSE SlideRowScanChained([cleared EXCEPT ![top] = hold], c + 1, top + 1,
                                            t, score)
              ELSE SlideRowScanChained(cleared, c + 1, top, t, score)

\* (mutant) the merged tile keeps its rank (tile instead of ++tile)
RECURSIVE SlideRowScanSameRank(_, _, _, _, _)
SlideRowScanSameRank(row, c, top, hold, score) ==
    IF c = 4
    THEN [row |-> IF hold # 0 THEN [row EXCEPT ![top] = hold] ELSE row,
          score |-> score]
    ELSE LET t == row[c] IN
         IF t = 0 THEN SlideRowScanSameRank(row, c + 1, top, hold, score)
         ELSE LET cleared == [row EXCEPT ![c] = 0] IN
              IF hold # 0
              THEN IF t = hold
                   THEN SlideRowScanSameRank([cleared EXCEPT ![top] = t], c + 1, top + 1,
                                             0, score + 2 ^ (t + 1))
                   ELSE SlideRowScanSameRank([cleared EXCEPT ![top] = hold], c + 1, top + 1,
                                             t, score)
              ELSE SlideRowScanSameRank(cleared, c + 1, top, t, score)

RECURSIVE SlideRowScan(_, _, _, _, _)
SlideRowScan(row, c, top, hold, score) ==
    IF c = 4
    THEN [row |-> IF hold # 0 THEN [row EXCEPT ![top] = hold] ELSE row,
          score |-> score]
    ELSE LET t == row[c] IN
         IF t = 0 THEN SlideRowScan(row, c + 1, top, hold, score)
         ELSE LET cleared == [row EXCEPT ![c] = 0] IN
              IF hold # 0
              THEN IF t = hold
                   THEN SlideRowScan([cleared EXCEPT ![top] = t + 1], c + 1, top + 1,
                                     0, score + 2 ^ (t + 1))
                   ELSE SlideRowScan([cleared EXCEPT ![top] = hold], c + 1, top + 1,
                                     t, score)
              ELSE SlideRowScan(cleared, c + 1, top, t, score)

RowOf(b, r) == [c \in Idx |-> At(b, r, c)]

\* (mutant) the row is left as it is
SlideRowKept(b, r) == [row |-> RowOf(b, r), score |-> 0]

\* one iteration of the row loop of slide_left
SlideRow(b, r) == SlideRowScan(RowOf(b, r), 0, 0, 0, 0)

\* (mutant) the score is returned whether or not the board changed
SlideReturnScoreOnly(after, before, score) == score

\* the value slide_left returns: the score, or -1 when the board is unchanged
SlideReturn(after, before, score) == IF after # before THEN score ELSE -1

\* reward slide_left(): the board after the call and the value returned
slide_left(b) ==
    LET rows == [r \in Idx |-> SlideRow(b, r)]
        after == [i \in Cells |-> rows[i \div 4].row[i % 4]]
        score == rows[0].score + rows[1].score + rows[2].score + rows[3].score
    IN  [tile |-> after, reward |-> SlideReturn(after, b, score)]

slide_right(b) ==
    LET s == slide_left(reflect_horizontal(b))
    IN  [tile |-> reflect_horizontal(s.tile), reward |-> s.reward]

slide_up(b) ==
    LET s == slide_right(rotate_clockwise(b))
    IN  [tile |-> rotate_counterclockwise(s.tile), reward |-> s.reward]

slide_down(b) ==
    LET s == slide_left(rotate_clockwise(b))
    IN  [tile |-> rotate_counterclockwise(s.tile), reward |-> s.reward]

\* (mutant) case 0 slides down and case 2 slides up
slide_up_down_swapped(b, opcode) ==
    CASE opcode % 4 = 0 -> slide_down(b)
      [] opcode % 4 = 1 -> slide_right(b)
      [] opcode % 4 = 2 -> slide_up(b)
      [] opcode % 4 = 3 -> slide_left(b)

\* reward slide(unsigned opcode): switch (opcode & 0b11)
slide(b, opcode) ==
    CASE opcode % 4 = 0 -> slide_up(b)
      [] opcode % 4 = 1 -> slide_right(b)
      [] opcode % 4 = 2 -> slide_down(b)
      [] opcode % 4 = 3 -> slide_left(b)

\* (mutant) an occupied cell is overwritten
place_overwrites(b, pos, t) ==
    IF pos >= 16 THEN [tile |-> b, reward |-> -1]
    ELSE IF t # 1 /\ t # 2 THEN [tile |-> b, reward |-> -1]
    ELSE [tile |-> [b EXCEPT ![pos] = t], reward |-> 0]

\* reward place(unsigned pos, cell tile)
place(b, pos, t) ==
    IF pos >= 16 \/ b[pos] # 0 THEN [tile |-> b, reward |-> -1]
    ELSE IF t # 1 /\ t # 2 THEN [tile |-> b, reward |-> -1]
    ELSE [tile |-> [b EXCEPT ![pos] = t], reward |-> 0]

\* int count_tile_value(cell value)
count_tile_value(b, value) == Cardinality({i \in Cells : b[i] = value})

\* (mutant) exactly two 8192 are asked for
has_two_8192_exactly(b) == Cardinality({i \in Cells : b[i] = 13}) = 2

\* bool has_two_8192(): at least two cells of rank 13
has_two_8192(b) == Cardinality({i \in Cells : b[i] = 13}) >= 2

\* int max_tile_value(): the scan max_val = max(max_val, cell), from 0
RECURSIVE MaxTileLoop(_, _, _)
MaxTileLoop(b, i, max_val) ==
    IF i = 16 THEN max_val
    ELSE MaxTileLoop(b, i + 1, IF b[i] > max_val THEN b[i] ELSE max_val)

max_tile_value(b) == MaxTileLoop(b, 0, 0)

\* (mutant) three 4096 are looked at before the 8192
calculate_danger_level_medium_first(b) ==
    LET count_8192 == count_tile_value(b, 13)
        count_4096 == count_tile_value(b, 12)
    IN  IF count_4096 >= 3 THEN 4
        ELSE IF count_8192 >= 1 /\ count_4096 >= 2 THEN 10
        ELSE IF count_8192 >= 1 /\ count_4096 >= 1 THEN 7
        ELSE 0

\* (mutant) two 8192 are dangerous by themselves
calculate_danger_level_two_8192(b) ==
    LET count_8192 == count_tile_value(b, 13)
        count_4096 == count_tile_value(b, 12)
    IN  IF count_8192 >= 2 \/ (count_8192 >= 1 /\ count_4096 >= 2) THEN 10
        ELSE IF count_8192 >= 1 /\ count_4096 >= 1 THEN 7
        ELSE IF count_4096 >= 3 THEN 4
        ELSE 0

\* (mutant) the medium level needs five 4096 instead of three
calculate_danger_level_five_4096(b) ==
    LET count_8192 == count_tile_value(b, 13)
        count_4096 == count_tile_value(b, 12)
    IN  IF count_8192 >= 1 /\ count_4096 >= 2 THEN 10
        ELSE IF count_8192 >= 1 /\ count_4096 >= 1 THEN 7
        ELSE IF count_4096 >= 5 THEN 4
        ELSE 0

\* float calculate_danger_level(), in tenths: 10, 7, 4, 0 for 1.0f, 0.7f,
\* 0.4f, 0.0f
calculate_danger_level(b) ==
    LET count_8192 == count_tile_value(b, 13)
        count_4096 == count_tile_value(b, 12)
    IN  IF count_8192 >= 1 /\ count_4096 >= 2 THEN 10
        ELSE IF count_8192 >= 1 /\ count_4096 >= 1 THEN 7
        ELSE IF count_4096 >= 3 THEN 4
        ELSE 0

(***************************************************************************)
(* The boards the board engine is exercised on.                            *)
(***************************************************************************)
\* boards with at most MaxTiles tiles, anywhere, of the ranks TileRanks
RECURSIVE SparseFrom(_, _)
SparseFrom(bs, k) ==
    IF k = 0 THEN bs
    ELSE SparseFrom(bs \cup {[b EXCEPT ![i] = t] : b \in bs, i \in Cells, t \in TileRanks}, k - 1)

SparseBoards == SparseFrom({EmptyBoard}, MaxTiles)

\* boards whose tiles all lie in row 0, every cell of the row of rank 0 or in
\* TileRanks, and their images under the eight symmetries of the square
LineBoards ==
    LET RowVals == TileRanks \cup {0}
        base == {[i \in Cells |-> IF i < 4 THEN q[i + 1] ELSE 0] :
                    q \in RowVals \X RowVals \X RowVals \X RowVals}
        rot == base \cup {rotate_clockwise(b) : b \in base}
    IN  rot \cup {reverse(b) : b \in rot}

\* boards one slide away from two 8192: two pairs of 4096 in two columns,
\* an 8192 with a pair of 4096 in another row, the same beside a small tile
NearWinBoards ==
    {[i \in Cells |-> IF i \in {0, 4, 3, 7} THEN 12 ELSE 0],
     [i \in Cells |-> IF i = 0 THEN 13 ELSE IF i \in {5, 6} THEN 12 ELSE 0],
     [i \in Cells |-> IF i = 3 THEN 13 ELSE IF i \in {9, 13} THEN 12
                                        ELSE IF i = 2 THEN 1 ELSE 0]}

InputBoards == SparseBoards \cup LineBoards \cup NearWinBoards

(***************************************************************************)
(* agent.h: the pattern evaluator of strategic_slider.                     *)
(*                                                                         *)
(* A weight table is [size |-> its length, w |-> its non-zero weights], w  *)
(* a function from some indices below size to integers: every index not in *)
(* DOMAIN w holds 0.  net is the sequence of the tables (table i of the    *)
(* code is net[i + 1]).                                                    *)
(***************************************************************************)
\* static const patterns: the four 2x2 quadrants (part_002 lines 410-415)
patterns == << <<0, 1, 4, 5>>, <<2, 3, 6, 7>>, <<8, 9, 12, 13>>, <<10, 11, 14, 15>> >>

Min(a, b) == IF a < b THEN a ELSE b

\* weights[index]
WeightAt(table, index) == IF index \in DOMAIN table.w THEN table.w[index] ELSE 0

\* void mirror_horizontal(board& b)
RECURSIVE MirrorHLoop(_, _)
MirrorHLoop(b, r) ==
    IF r = 4 THEN b
    ELSE MirrorHLoop(Swap(Swap(b, r * 4 + 0, r * 4 + 3), r * 4 + 1, r * 4 + 2), r + 1)

MirrorHorizontalCells == MirrorHLoop(CellNames, 0)

mirror_horizontal(b) == Moved(b, MirrorHorizontalCells)

\* void mirror_vertical(board& b)
RECURSIVE MirrorVLoop(_, _)
MirrorVLoop(b, c) ==
    IF c = 4 THEN b
    ELSE MirrorVLoop(Swap(Swap(b, 0 * 4 + c, 3 * 4 + c), 1 * 4 + c, 2 * 4 + c), c + 1)

MirrorVerticalCells == MirrorVLoop(CellNames, 0)

mirror_vertical(b) == Moved(b, MirrorVerticalCells)

\* void transpose_board(board& b)
RECURSIVE TransposeBoardLoop(_, _, _)
TransposeBoardLoop(b, r, c) ==
    IF r = 4 THEN b
    ELSE IF c >= 4 THEN TransposeBoardLoop(b, r + 1, r + 2)
    ELSE TransposeBoardLoop(Swap(b, r * 4 + c, c * 4 + r), r, c + 1)

TransposeBoardCells == TransposeBoardLoop(CellNames, 0, 1)

transpose_board(b) == Moved(b, TransposeBoardCells)

\* (mutant) the loop is left before the index reaches size, with the index
\* of the positions read so far
RECURSIVE PatternIndexLoopPartial(_, _, _, _, _, _)
PatternIndexLoopPartial(b, pattern, size, k, index, multiplier) ==
    IF k > Len(pattern) THEN index
    ELSE LET pos == pattern[k]
             inBoard == pos >= 0 /\ pos < 16
             index2 == IF inBoard THEN index + Min(b[pos], 15) * multiplier ELSE index
             multiplier2 == IF inBoard THEN multiplier * 16 ELSE multiplier
         IN  IF index2 >= size THEN index
             ELSE PatternIndexLoopPartial(b, pattern, size, k + 1, index2, multiplier2)

\* the index loop of evaluate_pattern and update_pattern_weights: k is the
\* next position of the pattern, index and multiplier as in the code; the
\* loop is left as soon as index >= size
RECURSIVE PatternIndexLoop(_, _, _, _, _, _)
PatternIndexLoop(b, pattern, size, k, index, multiplier) ==
    IF k > Len(pattern) THEN index
    ELSE LET pos == pattern[k]
             inBoard == pos >= 0 /\ pos < 16
             index2 == IF inBoard THEN index + Min(b[pos], 15) * multiplier ELSE index
             multiplier2 == IF inBoard THEN multiplier * 16 ELSE multiplier
         IN  IF index2 >= size THEN index2
             ELSE PatternIndexLoop(b, pattern, size, k + 1, index2, multiplier2)

PatternIndex(b, pattern, size) == PatternIndexLoop(b, pattern, size, 1, 0, 1)

\* float evaluate_pattern(const board& b, pattern, const weight& weights)
evaluate_pattern(b, pattern, weights) ==
    LET index == PatternIndex(b, pattern, weights.size)
    IN  IF index < weights.size THEN WeightAt(weights, index) ELSE 0

\* the seven boards evaluate_isomorphic_patterns looks the pattern up on, in
\* the order of the code (the last four are successive changes of the one
\* board "transposed")
IsomorphicBoards(b) ==
    LET mirrored_h == mirror_horizontal(b)
        mirrored_v == mirror_vertical(b)
        transposed == transpose_board(b)
        t2 == mirror_horizontal(transposed)
        t3 == mirror_vertical(t2)
        t4 == transpose_board(t3)
        t5 == mirror_horizontal(t4)
    IN  <<mirrored_h, mirrored_v, transposed, t2, t3, t4, t5>>

RECURSIVE SumPattern(_, _, _)
SumPattern(bs, pattern, weights) ==
    IF bs = <<>> THEN 0
    ELSE evaluate_pattern(Head(bs), pattern, weights) + SumPattern(Tail(bs), pattern, weights)

\* float evaluate_isomorphic_patterns(const board& b, pattern, weights)
evaluate_isomorphic_patterns(b, pattern, weights) ==
    SumPattern(IsomorphicBoards(b), pattern, weights)

\* the loop of evaluate_board over the patterns, i counted from 1
RECURSIVE EvaluateLoop(_, _, _)
EvaluateLoop(n, b, i) ==
    IF i > Min(Len(patterns), Len(n)) THEN 0
    ELSE (IF n[i].size = 0 THEN 0
          ELSE evaluate_pattern(b, patterns[i], n[i])
               + evaluate_isomorphic_patterns(b, patterns[i], n[i]))
         + EvaluateLoop(n, b, i + 1)

\* float evaluate_board(const board& b), on the weight tables n
evaluate_board(n, b) == IF Len(n) = 0 THEN 0 ELSE EvaluateLoop(n, b, 1)

(***************************************************************************)
(* agent.h: the TD learning engine of strategic_slider.                    *)
(*                                                                         *)
(* A trace table has the shape of a weight table.  nt stands for the pair  *)
(* [net |-> weight tables, traces |-> trace tables] the update functions   *)
(* change.  A td_error is the fraction [num |-> n, den |-> d]: the code    *)
(* multiplies errors by 0.125f before it multiplies them by alpha, and     *)
(* alpha * num is a multiple of den for every alpha of the model.          *)
(***************************************************************************)
Frac(x) == [num |-> x, den |-> 1]

\* td_error * 0.125f
TimesEighth(e) == [num |-> e.num, den |-> e.den * 8]

\* table[index] = v
SetAt(f, index, v) ==
    IF v = 0 THEN [k \in DOMAIN f \ {index} |-> f[k]]
    ELSE [k \in DOMAIN f \cup {index} |-> IF k = index THEN v ELSE f[k]]

\* void initialize_eligibility_traces(): one zero-filled table per weight
\* table, of its size; none when there is no weight table
initialize_eligibility_traces(n) == [i \in DOMAIN n |-> [size |-> n[i].size, w |-> <<>>]]

\* (mutant) the trajectory is kept
clear_keeps(episode) == episode

\* current_episode.clear()
clear(episode) == <<>>

\* (mutant) the traces are kept
reset_eligibility_traces_keeps(traces) == traces

\* void reset_eligibility_traces(): std::fill(..., 0.0f)
reset_eligibility_traces(traces) == [i \in DOMAIN traces |-> [traces[i] EXCEPT !.w = <<>>]]

\* void decay_eligibility_traces(): trace *= eligibility_decay
decay_eligibility_traces(traces, decay) ==
    [i \in DOMAIN traces |->
        [traces[i] EXCEPT !.w = [k \in {j \in DOMAIN @ : @[j] * decay # 0} |-> @[k] * decay]]]

\* (mutant) the trace accumulates and the weight moves by alpha * td_error
\* times the accumulated trace
update_pattern_weights_accumulate(nt, a, state, pattern, i, td_error) ==
    LET size == nt.net[i].size
        index == PatternIndex(state, pattern, size)
    IN  IF index < size /\ index < nt.traces[i].size
        THEN LET trace == WeightAt(nt.traces[i], index) + 1
                 w == WeightAt(nt.net[i], index) + (a * td_error.num * trace) \div td_error.den
             IN  [net |-> [nt.net EXCEPT ![i].w = SetAt(@, index, w)],
                  traces |-> [nt.traces EXCEPT ![i].w = SetAt(@, index, trace)]]
        ELSE nt

\* (mutant) the weight moves by alpha * td_error times the trace found,
\* and the trace is set to 1 afterwards
update_pattern_weights_trace_found(nt, a, state, pattern, i, td_error) ==
    LET size == nt.net[i].size
        index == PatternIndex(state, pattern, size)
    IN  IF index < size /\ index < nt.traces[i].size
        THEN LET trace == WeightAt(nt.traces[i], index)
                 w == WeightAt(nt.net[i], index) + (a * td_error.num * trace) \div td_error.den
             IN  [net |-> [nt.net EXCEPT ![i].w = SetAt(@, index, w)],
                  traces |-> [nt.traces EXCEPT ![i].w = SetAt(@, index, 1)]]
        ELSE nt

\* void update_pattern_weights(state, pattern, net_index, td_error), i being
\* net_index + 1
update_pattern_weights(nt, a, state, pattern, i, td_error) ==
    LET size == nt.net[i].size
        index == PatternIndex(state, pattern, size)
    IN  IF index < size /\ index < nt.traces[i].size
        THEN LET trace == 1
                 w == WeightAt(nt.net[i], index) + (a * td_error.num * trace) \div td_error.den
             IN  [net |-> [nt.net EXCEPT ![i].w = SetAt(@, index, w)],
                  traces |-> [nt.traces EXCEPT ![i].w = SetAt(@, index, trace)]]
        ELSE nt

\* void update_isomorphic_pattern_weights(state, pattern, net_index, td_error)
update_isomorphic_pattern_weights(nt, a, state, pattern, i, td_error) ==
    LET mirrored == mirror_horizontal(state)
        nt1 == update_pattern_weights(nt, a, mirrored, pattern, i, TimesEighth(td_error))
        transposed == transpose_board(state)
    IN  update_pattern_weights(nt1, a, transposed, pattern, i, TimesEighth(td_error))

\* the loop of update_weights_with_td_error over the patterns
RECURSIVE UpdateLoop(_, _, _, _, _)
UpdateLoop(nt, a, state, td_error, i) ==
    IF i > Min(Len(patterns), Len(nt.net)) THEN nt
    ELSE IF nt.net[i].size = 0 THEN UpdateLoop(nt, a, state, td_error, i + 1)
    ELSE LET nt1 == update_pattern_weights(nt, a, state, patterns[i], i, td_error)
             nt2 == update_isomorphic_pattern_weights(nt1, a, state, patterns[i], i, td_error)
         IN  UpdateLoop(nt2, a, state, td_error, i + 1)

\* void update_weights_with_td_error(const board& state, float td_error)
update_weights_with_td_error(nt, a, state, td_error) ==
    IF Len(nt.net) = 0 \/ Len(nt.traces) = 0 THEN nt
    ELSE UpdateLoop(nt, a, state, Frac(td_error), 1)

\* action(), action::slide(op)
NoAction == [type |-> "none"]
SlideAction(opcode) == [type |-> "slide", op |-> opcode]

\* action::apply(board&) of a slide action: board::slide(op)
ApplyAction(a, b) == IF a.type = "slide" THEN slide(b, a.op) ELSE [tile |-> b, reward |-> -1]

\* the number of empty cells evaluate_action counts
EmptyCells(b) == Cardinality({i \in Cells : b[i] = 0})

\* the floats outside the range of the integers of the model: FloatLowest
\* stands for -std::numeric_limits<float>::max(), NegInfinity for the float
\* -inf below it, HugePenalty for the option penalty=1e35
FloatLowest == -2000000000

NegInfinity == -2000000001

HugePenalty == 1000000000

\* float evaluate_action(before, after, reward); danger in tenths times the
\* penalty factor in tenths times 100 is danger * factor * 10000.0f.  With
\* penalty=1e35 the product is 0.0f for danger 0.0f and overflows to +inf
\* for every other danger level, and final_value is then -inf.
evaluate_action(n, after, reward, penalty, bonus) ==
    LET base_value == reward + (IF Len(n) # 0 THEN evaluate_board(n, after) ELSE 0)
        danger_after == calculate_danger_level(after)
        survival_reward == EmptyCells(after) * bonus
    IN  IF penalty = HugePenalty
        THEN IF danger_after = 0 THEN base_value + survival_reward ELSE NegInfinity
        ELSE base_value - danger_after * penalty * 100 + survival_reward

\* std::array<int, 4> opcode({ 0, 1, 2, 3 })
opcode == <<0, 1, 2, 3>>

\* (mutant) a later direction of equal value replaces the earlier one
BestOfLast(best, code, reward, value) ==
    IF reward = -1 THEN best
    ELSE IF value >= best.value
    THEN [found |-> TRUE, value |-> value, action |-> SlideAction(code)]
    ELSE best

\* one iteration of the first loop of select_best_action, on the direction
\* code whose slide returned reward and is worth value: best.found is FALSE
\* while best_value is still -FLT_MAX, which every value but -inf exceeds
BestOf(best, code, reward, value) ==
    IF reward = -1 THEN best
    ELSE IF value > best.value
    THEN [found |-> TRUE, value |-> value, action |-> SlideAction(code)]
    ELSE best

\* evaluate_action of the board and the reward the slide s gave
SlideValue(n, s, penalty, bonus) == evaluate_action(n, s.tile, s.reward, penalty, bonus)

\* the first loop of select_best_action, over the directions of opcode
RECURSIVE BestLoop(_, _, _, _, _, _)
BestLoop(n, b, penalty, bonus, k, best) ==
    IF k > Len(opcode) THEN best
    ELSE BestLoop(n, b, penalty, bonus, k + 1,
                  BestOf(best, opcode[k], slide(b, opcode[k]).reward,
                         SlideValue(n, slide(b, opcode[k]), penalty, bonus)))

\* the fallback loop of select_best_action: the first legal direction
RECURSIVE FirstLegal(_, _)
FirstLegal(b, k) ==
    IF k > Len(opcode) THEN NoAction
    ELSE IF slide(b, opcode[k]).reward # -1 THEN SlideAction(opcode[k])
    ELSE FirstLegal(b, k + 1)

\* (mutant) the step stores the board before the slide as next_state
GameStepNotApplied(n, b, best_action) ==
    [state |-> b, action_taken |-> best_action, reward |-> ApplyAction(best_action, b).reward,
     next_state |-> b, evaluation |-> evaluate_board(n, b)]

\* the GameStep select_best_action stores for best_action
GameStep(n, b, best_action) ==
    LET applied == ApplyAction(best_action, b)
    IN  [state |-> b, action_taken |-> best_action, reward |-> applied.reward,
         next_state |-> applied.tile, evaluation |-> evaluate_board(n, b)]

\* the end of select_best_action: the fallback when no best action was
\* found, else the step recorded and the action returned
RecordStep(n, episode, learning, b, best, fallback) ==
    IF ~best.found /\ fallback # NoAction
    THEN [action |-> fallback, episode |-> episode]
    ELSE IF learning /\ best.action.type # "none"
    THEN [action |-> best.action, episode |-> Append(episode, GameStep(n, b, best.action))]
    ELSE [action |-> best.action, episode |-> episode]

\* action select_best_action(const board& before): the action returned and
\* the trajectory after the call
select_best_action(n, episode, learning, b, penalty, bonus) ==
    RecordStep(n, episode, learning, b,
               BestLoop(n, b, penalty, bonus, 1,
                        [found |-> FALSE, value |-> FloatLowest, action |-> NoAction]),
               FirstLegal(b, 1))

\* void perform_td_update(const board& current_state); the step
\* current_episode[size - 2] of the code is episode[Len(episode) - 1]
perform_td_update(nt, episode, current_state, a, lam, decay) ==
    IF Len(episode) < 2 THEN [net |-> nt.net, traces |-> nt.traces, calls |-> <<>>]
    ELSE LET prev_step == episode[Len(episode) - 1]
             current_value == evaluate_board(nt.net, current_state)
             td_target == prev_step.reward + lam * current_value
             td_error == td_target - prev_step.evaluation
             nt1 == update_weights_with_td_error(nt, a, prev_step.state, td_error)
         IN  [net |-> nt1.net,
              traces |-> decay_eligibility_traces(nt1.traces, decay),
              calls |-> <<[step |-> Len(episode) - 1, state |-> prev_step.state,
                           td_error |-> td_error]>>]

\* (mutant) a "lose" is always worth the base reward
calculate_final_reward_flat(flag, episode) ==
    IF flag = "win" THEN -50000
    ELSE IF flag = "lose" THEN (IF episode # <<>> THEN 1000 ELSE 0)
    ELSE 0

\* float calculate_final_reward(const std::string& flag)
calculate_final_reward(flag, episode) ==
    IF flag = "win" THEN -50000
    ELSE IF flag = "lose"
    THEN IF episode # <<>>
         THEN LET final_state == episode[Len(episode)].next_state
                  count_8192 == count_tile_value(final_state, 13)
              IN  IF count_8192 = 1 THEN 10000
                  ELSE IF count_8192 = 0 /\ max_tile_value(final_state) >= 12 THEN 5000
                  ELSE 1000
         ELSE 0
    ELSE 0

\* std::pow(lambda, k) for an integral lambda
RECURSIVE Pow(_, _)
Pow(x, k) == IF k = 0 THEN 1 ELSE x * Pow(x, k - 1)

\* (mutant) the backward loop stops before the first step of the episode
RECURSIVE FinalLoopSkipFirst(_, _, _, _, _, _, _)
FinalLoopSkipFirst(nt, log, episode, a, lam, i, td_error) ==
    IF i < 2 THEN [net |-> nt.net, traces |-> nt.traces, calls |-> log]
    ELSE LET step == episode[i]
             discounted_error == td_error * Pow(lam, Len(episode) - i)
             nt1 == update_weights_with_td_error(nt, a, step.state, discounted_error)
             log1 == Append(log, [step |-> i, state |-> step.state,
                                  td_error |-> discounted_error])
         IN  FinalLoopSkipFirst(nt1, log1, episode, a, lam, i - 1,
                                IF i > 1 THEN step.reward + lam * td_error ELSE td_error)

\* the backward loop of perform_final_td_update; step i of the code is
\* episode[i + 1], so it runs from Len(episode) down to 1
RECURSIVE FinalLoop(_, _, _, _, _, _, _)
FinalLoop(nt, log, episode, a, lam, i, td_error) ==
    IF i < 1 THEN [net |-> nt.net, traces |-> nt.traces, calls |-> log]
    ELSE LET step == episode[i]
             discounted_error == td_error * Pow(lam, Len(episode) - i)
             nt1 == update_weights_with_td_error(nt, a, step.state, discounted_error)
             log1 == Append(log, [step |-> i, state |-> step.state,
                                  td_error |-> discounted_error])
         IN  FinalLoop(nt1, log1, episode, a, lam, i - 1,
                       IF i > 1 THEN step.reward + lam * td_error ELSE td_error)

\* void perform_final_td_update(const std::string& flag)
perform_final_td_update(nt, episode, flag, a, lam) ==
    IF episode = <<>> THEN [net |-> nt.net, traces |-> nt.traces, calls |-> <<>>]
    ELSE LET last_step == episode[Len(episode)]
             final_reward == calculate_final_reward(flag, episode)
             td_error == final_reward - last_step.evaluation
         IN  FinalLoop(nt, <<>>, episode, a, lam, Len(episode), td_error)

(***************************************************************************)
(* Weight stores: what init=65536,65536,65536,65536 builds (zero-filled),  *)
(* and a hand-constructed store of four tables with known values, as a     *)
(* load= of a weight file gives.                                           *)
(***************************************************************************)
\* init=65536,... (part_000 line 35): 16^4 weights, one per pattern index
TableSize == 65536

ZeroTable(size) == [size |-> size, w |-> <<>>]

ZeroStore == [i \in 1..4 |-> ZeroTable(TableSize)]

HandTable(i) ==
    [size |-> TableSize,
     w |-> (0 :> i) @@ (1 :> 3 * i) @@ (2 :> 1) @@ (16 :> 2) @@ (17 :> 5)
           @@ (256 :> 4) @@ (4096 :> 7)]

HandStore == [i \in 1..4 |-> HandTable(i)]

WeightStores == {ZeroStore, HandStore}

\* the agent as constructed without options: no tables, alpha(0), the
\* member initialisers of strategic_slider (part_002 lines 177-188)
ConfigIdle ==
    /\ alpha = 0
    /\ lambda = 1
    /\ eligibility_decay = 1
    /\ danger_penalty_factor = 7
    /\ survival_bonus = 1000

LearnIdle(n) ==
    /\ net = n
    /\ eligibility_traces = initialize_eligibility_traces(n)
    /\ current_episode = <<>>
    /\ move_count = 0
    /\ playing = FALSE
    /\ asked = 0

CallIdle ==
    /\ input = EmptyBoard
    /\ result = <<"init">>
    /\ lookups = <<>>
    /\ net0 = net
    /\ calls = <<>>

AgentIdle ==
    /\ ConfigIdle
    /\ LearnIdle(<<>>)
    /\ enable_learning = TRUE
    /\ CallIdle

BoardIdle ==
    /\ tile = EmptyBoard
    /\ prev = EmptyBoard
    /\ ret = 0
    /\ op = <<"init">>

\* statistics(total, block, limit) (statistics.h lines 29-33): block and
\* limit default to total when given as 0
statistics(t, b, l) ==
    /\ total = t
    /\ block = IF b # 0 THEN b ELSE t
    /\ limit = IF l # 0 THEN l ELSE t
    /\ count = 0
    /\ data = <<>>
    /\ opened = 0
    /\ loads = 0
    /\ aborted = FALSE

StatIdle == statistics(1, 0, 0)

\* no second agent is run
TwinIdle == twin = <<>>

\* the process is not followed
ProcessIdle == process = <<>>

(***************************************************************************)
(* Specification of the board engine: a board drawn from InputBoards, then *)
(* one operation on it (op records which, prev the board it was given,     *)
(* ret what it returned).                                                  *)
(***************************************************************************)
BoardInit ==
    /\ ProcessIdle
    /\ StatIdle
    /\ TwinIdle
    /\ tile \in InputBoards
    /\ prev = tile
    /\ ret = 0
    /\ op = <<"init">>
    /\ AgentIdle

Slide(code) ==
    /\ op[1] = "init"
    /\ LET s == slide(tile, code) IN
       /\ tile' = s.tile
       /\ ret' = s.reward
    /\ prev' = tile
    /\ op' = <<"slide", code>>

Place(pos, t) ==
    /\ op[1] = "init"
    /\ LET s == place(tile, pos, t) IN
       /\ tile' = s.tile
       /\ ret' = s.reward
    /\ prev' = tile
    /\ op' = <<"place", pos, t>>

\* the opcodes slide is called with: the four directions, and opcodes that
\* have bits above the lowest two
Opcodes == 0..7

BoardNext ==
    \/ \E code \in Opcodes : Slide(code)
    \/ \E pos \in 0..16, t \in 0..3 : Place(pos, t)

SpecBoard == BoardInit /\ [][BoardNext /\ UNCHANGED <<agentVars, statVars, twin, process>>]_vars

(***************************************************************************)
(* Specification of the board symmetries: a board drawn from               *)
(* SymmetryBoards, then up to MaxTurns calls of rotate_clockwise,          *)
(* reflect_horizontal and transpose on it (op lists the calls made, prev   *)
(* is the board drawn).                                                    *)
(***************************************************************************)
\* the board with 16 different cells and the boards with at most one tile
SymmetryBoards == {CellNames} \cup SparseFrom({EmptyBoard}, 1)

SymmetryInit ==
    /\ ProcessIdle
    /\ StatIdle
    /\ TwinIdle
    /\ tile \in SymmetryBoards
    /\ prev = tile
    /\ ret = 0
    /\ op = <<>>
    /\ AgentIdle

RotateClockwise ==
    /\ Len(op) < MaxTurns
    /\ tile' = rotate_clockwise(tile)
    /\ op' = Append(op, "rotate_clockwise")
    /\ UNCHANGED <<prev, ret>>

ReflectHorizontal ==
    /\ Len(op) < MaxTurns
    /\ tile' = reflect_horizontal(tile)
    /\ op' = Append(op, "reflect_horizontal")
    /\ UNCHANGED <<prev, ret>>

Transpose ==
    /\ Len(op) < MaxTurns
    /\ tile' = transpose(tile)
    /\ op' = Append(op, "transpose")
    /\ UNCHANGED <<prev, ret>>

SymmetryNext == RotateClockwise \/ ReflectHorizontal \/ Transpose

SpecSymmetry == SymmetryInit /\ [][SymmetryNext /\ UNCHANGED <<agentVars, statVars, twin, process>>]_vars

(***************************************************************************)
(* Specification of the pattern evaluator: a weight store and a board      *)
(* drawn from InputBoards, and the evaluation of the board.                *)
(***************************************************************************)
EvalInit ==
    /\ ProcessIdle
    /\ StatIdle
    /\ TwinIdle
    /\ \E n \in WeightStores : LearnIdle(n)
    /\ ConfigIdle
    /\ enable_learning = TRUE
    /\ input \in InputBoards
    /\ result = <<"init">>
    /\ lookups = <<>>
    /\ net0 = net
    /\ calls = <<>>
    /\ BoardIdle

Evaluate ==
    /\ result[1] = "init"
    /\ result' = <<"evaluate_board", evaluate_board(net, input)>>
    /\ lookups' = <<input>> \o IsomorphicBoards(input)
    /\ UNCHANGED <<configVars, learnVars, driverVars, input, net0, calls>>

EvalNext == Evaluate

SpecEval == EvalInit /\ [][EvalNext /\ UNCHANGED <<boardVars, statVars, twin, process>>]_vars

(***************************************************************************)
(* Specification of the agent: a strategic_slider constructed from one of  *)
(* the option sets AgentConfigs over one of the weight stores AgentStores, *)
(* then driven through open_episode, take_action, check_for_win and        *)
(* close_episode.  The driver asks for actions and closes only inside an   *)
(* episode it opened; it may open a new episode without closing the last.  *)
(***************************************************************************)
\* a board from its 16 ranks, row by row
BoardOf(q) == [i \in Cells |-> q[i + 1]]

\* two equal tiles side by side: left and right merge them, up is illegal
PairBoard == BoardOf(<<1, 1, 0, 0,  0, 0, 0, 0,  0, 0, 0, 0,  0, 0, 0, 0>>)
\* a full board without equal neighbours: no slide is legal
FullBoard == BoardOf(<<1, 2, 1, 2,  2, 1, 2, 1,  1, 2, 1, 2,  2, 1, 2, 1>>)
\* one 8192 and two 4096 side by side: merging them makes the second 8192
DangerBoard == BoardOf(<<13, 12, 12, 0,  0, 0, 0, 0,  0, 0, 0, 0,  0, 0, 0, 0>>)
\* one 8192 and a small tile
OneTargetBoard == BoardOf(<<13, 0, 0, 0,  0, 0, 0, 1,  0, 0, 0, 0,  0, 0, 0, 0>>)
\* one 4096 and a small tile
NearTargetBoard == BoardOf(<<0, 0, 0, 0,  0, 12, 0, 0,  0, 0, 1, 0,  0, 0, 0, 0>>)

AgentBoards ==
    {PairBoard, FullBoard, DangerBoard, OneTargetBoard, NearTargetBoard}

\* the outcome tags of the driver ("win", "lose") and two others
Flags == {"win", "lose", "", "draw"}

\* enable_learning = (learning_str == "1" || learning_str == "true")
LearningOption(learning_str) == learning_str = "1" \/ learning_str = "true"

\* option sets: the defaults of the code with learning on (lambda and decay
\* rounded to 1), a run without penalty (penalty=0.0 bonus=100, lambda and
\* decay 0), and the evaluation run alpha=0 learning=0
AgentConfigs ==
    {[alpha |-> 8, lambda |-> 1, decay |-> 1, penalty |-> 7, bonus |-> 1000, learning |-> "true"],
     [alpha |-> 8, lambda |-> 0, decay |-> 0, penalty |-> 0, bonus |-> 100, learning |-> "1"],
     [alpha |-> 0, lambda |-> 1, decay |-> 1, penalty |-> 7, bonus |-> 1000, learning |-> "0"]}

\* no init= and no load=, init=65536,65536,65536,65536, a loaded store
AgentStores == {<<>>, ZeroStore, HandStore}

\* every weight is small enough for the float arithmetic of the next call
\* to be exact (and for the integers of the model not to overflow)
InRange(n) == \A i \in DOMAIN n : \A k \in DOMAIN n[i].w :
                  n[i].w[k] <= WeightCap /\ n[i].w[k] >= -WeightCap

Init ==
    /\ ProcessIdle
    /\ StatIdle
    /\ TwinIdle
    /\ \E cfg \in AgentConfigs :
          /\ alpha = cfg.alpha
          /\ lambda = cfg.lambda
          /\ eligibility_decay = cfg.decay
          /\ danger_penalty_factor = cfg.penalty
          /\ survival_bonus = cfg.bonus
          /\ enable_learning = LearningOption(cfg.learning)
    /\ \E n \in AgentStores : LearnIdle(n)
    /\ CallIdle
    /\ BoardIdle

\* void open_episode(const std::string& flag); game_count and the game
\* record only feed the log files and are left out
OpenEpisode ==
    /\ move_count' = 0
    /\ current_episode' = clear(current_episode)
    /\ eligibility_traces' = reset_eligibility_traces(eligibility_traces)
    /\ playing' = TRUE
    /\ input' = EmptyBoard
    /\ result' = <<"open_episode">>
    /\ net0' = net
    /\ calls' = <<>>
    /\ UNCHANGED <<configVars, net, enable_learning, asked, lookups>>

\* (mutant) updates are made whether learning is enabled or not
ShouldLearnAlways(learning, episode) == episode # <<>>

\* if (enable_learning && !current_episode.empty()), in take_action and in
\* close_episode
ShouldLearn(learning, episode) == learning /\ episode # <<>>

\* action take_action(const board& before)
TakeAction(b) ==
    /\ playing
    /\ asked < MaxMoves
    /\ InRange(net)
    /\ \E sel \in {select_best_action(net, current_episode, enable_learning, b,
                                      danger_penalty_factor, survival_bonus)} :
       \E upd \in {IF ShouldLearn(enable_learning, sel.episode)
                   THEN perform_td_update([net |-> net, traces |-> eligibility_traces],
                                          sel.episode, b, alpha, lambda, eligibility_decay)
                   ELSE [net |-> net, traces |-> eligibility_traces, calls |-> <<>>]} :
           /\ current_episode' = sel.episode
           /\ net' = upd.net
           /\ eligibility_traces' = upd.traces
           /\ calls' = upd.calls
           /\ result' = <<"take_action", sel.action, Len(current_episode)>>
    /\ move_count' = move_count + 1
    /\ asked' = asked + 1
    /\ input' = b
    /\ net0' = net
    /\ UNCHANGED <<configVars, enable_learning, playing, lookups>>

\* boards with two 8192 far apart, with three, with sixteen and with none
\* among 4096 tiles
TargetBoards ==
    {BoardOf(<<13, 0, 0, 0,  0, 12, 0, 0,  0, 0, 1, 0,  0, 0, 0, 13>>),
     BoardOf(<<12, 13, 2, 13,  0, 0, 0, 0,  0, 0, 13, 0,  0, 0, 0, 0>>),
     [i \in Cells |-> 13],
     [i \in Cells |-> 12]}

\* the boards the driver calls check_for_win on after take_action returned
\* a slide: the board the slide leads to, and the boards of TargetBoards
CheckBoards ==
    IF result[1] = "take_action" /\ result[2].type = "slide"
    THEN {ApplyAction(result[2], input).tile} \cup TargetBoards
    ELSE {}

\* bool check_for_win(const board& b)
CheckForWin(b) ==
    /\ playing
    /\ input' = b
    /\ result' = <<"check_for_win", has_two_8192(b)>>
    /\ net0' = net
    /\ calls' = <<>>
    /\ UNCHANGED <<configVars, learnVars, driverVars, lookups>>

\* void close_episode(const std::string& flag)
CloseEpisode(flag) ==
    /\ playing
    /\ InRange(net)
    /\ LET nt == [net |-> net, traces |-> eligibility_traces]
           upd == IF ShouldLearn(enable_learning, current_episode)
                  THEN perform_final_td_update(nt, current_episode, flag, alpha, lambda)
                  ELSE [net |-> net, traces |-> eligibility_traces, calls |-> <<>>]
       IN  /\ net' = upd.net
           /\ eligibility_traces' = upd.traces
           /\ calls' = upd.calls
           /\ result' = <<"close_episode", flag>>
    /\ playing' = FALSE
    /\ input' = EmptyBoard
    /\ net0' = net
    /\ UNCHANGED <<configVars, current_episode, enable_learning, move_count, asked, lookups>>

\* void set_learning_enabled(bool enabled), at any time
SetLearningEnabled(enabled) ==
    /\ enable_learning # enabled
    /\ enable_learning' = enabled
    /\ input' = EmptyBoard
    /\ result' = <<"set_learning_enabled", enabled>>
    /\ net0' = net
    /\ calls' = <<>>
    /\ UNCHANGED <<configVars, net, eligibility_traces, current_episode, move_count,
                   driverVars, lookups>>

Next ==
    \/ OpenEpisode
    \/ \E b \in AgentBoards : TakeAction(b)
    \/ \E b \in CheckBoards : CheckForWin(b)
    \/ \E flag \in Flags : CloseEpisode(flag)
    \/ \E enabled \in BOOLEAN : SetLearningEnabled(enabled)

Spec == Init /\ [][Next /\ UNCHANGED <<boardVars, statVars, twin, process>>]_vars

(***************************************************************************)
(* Specification of two runs: the agent of Spec and a second agent that    *)
(* differs from it only in the option decay are given the same calls of    *)
(* open_episode, take_action and close_episode on the same boards.  twin   *)
(* holds the second agent; every action is the action of Spec on the first *)
(* agent together with the same call on the second.                        *)
(***************************************************************************)
\* the decay options of the model
Decays == {0, 1}

TwinInit ==
    /\ ProcessIdle
    /\ StatIdle
    /\ \E cfg \in AgentConfigs :
          /\ alpha = cfg.alpha
          /\ lambda = cfg.lambda
          /\ eligibility_decay = cfg.decay
          /\ danger_penalty_factor = cfg.penalty
          /\ survival_bonus = cfg.bonus
          /\ enable_learning = LearningOption(cfg.learning)
    /\ \E n \in AgentStores : LearnIdle(n)
    /\ CallIdle
    /\ BoardIdle
    /\ \E d \in Decays \ {eligibility_decay} :
          twin = [decay |-> d, net |-> net, traces |-> eligibility_traces,
                  episode |-> current_episode, action |-> NoAction]

TwinOpenEpisode ==
    /\ OpenEpisode
    /\ twin' = [twin EXCEPT !.episode = clear(@),
                            !.traces = reset_eligibility_traces(@),
                            !.action = NoAction]

TwinTakeAction(b) ==
    /\ TakeAction(b)
    /\ InRange(twin.net)
    /\ \E sel \in {select_best_action(twin.net, twin.episode, enable_learning, b,
                                      danger_penalty_factor, survival_bonus)} :
       \E upd \in {IF ShouldLearn(enable_learning, sel.episode)
                   THEN perform_td_update([net |-> twin.net, traces |-> twin.traces],
                                          sel.episode, b, alpha, lambda, twin.decay)
                   ELSE [net |-> twin.net, traces |-> twin.traces, calls |-> <<>>]} :
           twin' = [twin EXCEPT !.episode = sel.episode, !.net = upd.net,
                                !.traces = upd.traces, !.action = sel.action]

TwinCloseEpisode(flag) ==
    /\ CloseEpisode(flag)
    /\ InRange(twin.net)
    /\ \E upd \in {IF ShouldLearn(enable_learning, twin.episode)
                   THEN perform_final_td_update([net |-> twin.net, traces |-> twin.traces],
                                                twin.episode, flag, alpha, lambda)
                   ELSE [net |-> twin.net, traces |-> twin.traces, calls |-> <<>>]} :
           twin' = [twin EXCEPT !.net = upd.net, !.traces = upd.traces, !.action = NoAction]

TwinNext ==
    \/ TwinOpenEpisode
    \/ \E b \in AgentBoards : TwinTakeAction(b)
    \/ \E flag \in Flags : TwinCloseEpisode(flag)

SpecTwin == TwinInit /\ [][TwinNext /\ UNCHANGED <<boardVars, statVars, process>>]_vars

(***************************************************************************)
(* Specification of the selection of actions: the agent of Spec, also with *)
(* the option penalty=1e35, asked for actions on the boards of AgentBoards *)
(* and on a board whose only legal slide leads to a dangerous board.       *)
(***************************************************************************)
\* an 8192 between two 4096 that cannot merge: only down is legal, and the
\* board after it has danger level 1.0
TrappedBoard == BoardOf(<<13, 12, 1, 12,  0, 0, 0, 0,  0, 0, 0, 0,  0, 0, 0, 0>>)

SelectBoards == AgentBoards \cup {TrappedBoard}

SelectConfigs ==
    AgentConfigs \cup
    {[alpha |-> 8, lambda |-> 1, decay |-> 1, penalty |-> HugePenalty, bonus |-> 1000,
      learning |-> "true"]}

SelectInit ==
    /\ ProcessIdle
    /\ StatIdle
    /\ TwinIdle
    /\ \E cfg \in SelectConfigs :
          /\ alpha = cfg.alpha
          /\ lambda = cfg.lambda
          /\ eligibility_decay = cfg.decay
          /\ danger_penalty_factor = cfg.penalty
          /\ survival_bonus = cfg.bonus
          /\ enable_learning = LearningOption(cfg.learning)
    /\ \E n \in AgentStores : LearnIdle(n)
    /\ CallIdle
    /\ BoardIdle

SelectNext ==
    \/ OpenEpisode
    \/ \E b \in SelectBoards : TakeAction(b)

SpecSelect == SelectInit /\ [][SelectNext /\ UNCHANGED <<boardVars, statVars, twin, process>>]_vars

(***************************************************************************)
(* Specification of the weight update: a weight store, a learning rate,    *)
(* and up to MaxUpdates calls of update_weights_with_td_error, each on a   *)
(* board and with an error drawn from small sets.                          *)
(***************************************************************************)
\* init=1000,1000,1000,1000 (part_002 line 831): tables shorter than 16^4
SmallTableSize == 1000

\* three tables, the second of length 0
ShortStore == <<ZeroTable(SmallTableSize), ZeroTable(0), ZeroTable(SmallTableSize)>>

\* five tables: one more than there are patterns
WideStore == [i \in 1..5 |-> HandTable(i)]

UpdateStores == {ZeroStore, HandStore, ShortStore, WideStore}

UpdateBoards == AgentBoards \cup {EmptyBoard}

UpdateErrors == {-50000, 4, 10000}

UpdateAlphas == {8, 16}

UpdateInit ==
    /\ ProcessIdle
    /\ StatIdle
    /\ TwinIdle
    /\ alpha \in UpdateAlphas
    /\ lambda = 1
    /\ eligibility_decay = 1
    /\ danger_penalty_factor = 7
    /\ survival_bonus = 1000
    /\ enable_learning = TRUE
    /\ \E n \in UpdateStores : LearnIdle(n)
    /\ CallIdle
    /\ BoardIdle

Update(state, td_error) ==
    /\ (IF result[1] = "init" THEN 0 ELSE result[3]) < MaxUpdates
    /\ LET nt == update_weights_with_td_error([net |-> net, traces |-> eligibility_traces],
                                              alpha, state, td_error)
       IN  /\ net' = nt.net
           /\ eligibility_traces' = nt.traces
    /\ input' = state
    /\ result' = <<"update", td_error, IF result[1] = "init" THEN 1 ELSE result[3] + 1>>
    /\ net0' = net
    /\ calls' = <<[step |-> 0, state |-> state, td_error |-> td_error]>>
    /\ UNCHANGED <<configVars, current_episode, enable_learning, move_count, driverVars,
                   lookups>>

UpdateNext == \E state \in UpdateBoards, td_error \in UpdateErrors : Update(state, td_error)

SpecUpdate == UpdateInit /\ [][UpdateNext /\ UNCHANGED <<boardVars, statVars, twin, process>>]_vars

(***************************************************************************)
(* Specification of pattern lookup and pattern update: four tables of one  *)
(* length drawn from TableLengths, a board whose four patterns hold the    *)
(* same four ranks, then one evaluate_pattern or update_pattern_weights    *)
(* call.  result records the index at which the call read or wrote the     *)
(* table, -1 when it did neither.                                          *)
(***************************************************************************)
\* the table lengths of the dense tables: the powers of 16 up to 256 and
\* lengths beside them
TableLengths == {0, 1, 15, 16, 17, 255, 256, 257}

\* a table of that length in which every weight is set: the weight at
\* index k is k + 1
DenseTable(size) == [size |-> size, w |-> [k \in 0..(size - 1) |-> k + 1]]

\* a table of length SmallTableSize with some weights set
SmallTable ==
    [size |-> SmallTableSize, w |-> (0 :> 3) @@ (1 :> 5) @@ (15 :> 7) @@ (16 :> 2) @@ (17 :> 9)
                                    @@ (255 :> 11) @@ (256 :> 4) @@ (272 :> 13)]

PatternTables == {DenseTable(size) : size \in TableLengths} \cup {SmallTable, HandTable(1)}

\* the ranks of a pattern's cells: empty, small, the cap 15 and above it
PatternRanks == {0, 1, 15, 17}

\* the boards whose patterns all hold the ranks q, in the order of the
\* pattern's positions
PatternBoards ==
    {[i \in Cells |-> q[CHOOSE k \in 1..4 : \E j \in 1..4 : patterns[j][k] = i]] :
        q \in [1..4 -> PatternRanks]}

\* the index at which evaluate_pattern and update_pattern_weights address
\* the table, -1 when they do not address it
IndexUsed(b, pattern, weights) ==
    IF PatternIndex(b, pattern, weights.size) < weights.size
    THEN PatternIndex(b, pattern, weights.size)
    ELSE -1

PatternInit ==
    /\ ProcessIdle
    /\ StatIdle
    /\ TwinIdle
    /\ alpha \in UpdateAlphas
    /\ lambda = 1
    /\ eligibility_decay = 1
    /\ danger_penalty_factor = 7
    /\ survival_bonus = 1000
    /\ enable_learning = TRUE
    /\ \E weights \in PatternTables : LearnIdle([i \in 1..4 |-> weights])
    /\ input \in PatternBoards
    /\ result = <<"init">>
    /\ lookups = <<>>
    /\ net0 = net
    /\ calls = <<>>
    /\ BoardIdle

EvaluatePattern(i) ==
    /\ result[1] = "init"
    /\ result' = <<"evaluate_pattern", i, IndexUsed(input, patterns[i], net[i]),
                   evaluate_pattern(input, patterns[i], net[i])>>
    /\ UNCHANGED <<configVars, learnVars, driverVars, input, lookups, net0, calls>>

UpdatePatternWeights(i, td_error) ==
    /\ result[1] = "init"
    /\ \E nt \in {update_pattern_weights([net |-> net, traces |-> eligibility_traces], alpha,
                                          input, patterns[i], i, Frac(td_error))} :
          /\ net' = nt.net
          /\ eligibility_traces' = nt.traces
    /\ result' = <<"update_pattern_weights", i, IndexUsed(input, patterns[i], net[i]),
                   td_error>>
    /\ UNCHANGED <<configVars, current_episode, enable_learning, move_count, driverVars,
                   input, lookups, net0, calls>>

PatternNext ==
    \/ \E i \in 1..4 : EvaluatePattern(i)
    \/ \E i \in 1..4, td_error \in UpdateErrors : UpdatePatternWeights(i, td_error)

SpecPattern == PatternInit /\ [][PatternNext /\ UNCHANGED <<boardVars, statVars, twin, process>>]_vars

(***************************************************************************)
(* Specification of weight storage over the life of a process: the agent   *)
(* is constructed from its options (init=, load=, save=), episodes are     *)
(* played, and the agent is destroyed when the program returns.  A path is *)
(* modelled by whether the file can be opened.                             *)
(***************************************************************************)
\* the values of load= and save=: absent, a file that opens, one that does not
Paths == {"none", "opens", "fails"}

StorageOptions == [init : BOOLEAN, load : Paths, save : Paths]

\* init=1000,1000: two zero-filled tables
InitStore == <<ZeroTable(SmallTableSize), ZeroTable(SmallTableSize)>>

\* (mutant) the failure is tolerated: the process goes on
exit_tolerated(p, code, cause) == [p EXCEPT !.failed = cause]

\* std::exit(code): the process ends; objects of automatic storage are not
\* destroyed
exit(p, code, cause) == [p EXCEPT !.status = "exited", !.code = code, !.failed = cause]

StorageInit ==
    /\ StatIdle
    /\ TwinIdle
    /\ AgentIdle
    /\ BoardIdle
    /\ \E options \in StorageOptions :
          process = [options |-> options, status |-> "start", code |-> 0, failed |-> "none",
                     episodes |-> 0, written |-> {}]

\* weight_agent::weight_agent (lines 79-86) with init_weights and
\* load_weights, then strategic_slider::strategic_slider
ConstructAgent ==
    /\ process.status = "start"
    /\ \E initialised \in {IF process.options.init THEN InitStore ELSE <<>>} :
          IF process.options.load = "fails"
          THEN /\ process' = exit(process, -1, "load")
               /\ net' = initialised
               /\ eligibility_traces' = eligibility_traces
          ELSE /\ process' = [process EXCEPT !.status = "running"]
               /\ net' = IF process.options.load = "opens" THEN HandStore ELSE initialised
               /\ eligibility_traces' = initialize_eligibility_traces(net')
    /\ UNCHANGED <<configVars, current_episode, enable_learning, move_count, driverVars,
                   callVars>>

\* one episode played by the running process
PlayEpisode ==
    /\ process.status = "running"
    /\ process.episodes < MaxEpisodes
    /\ process' = [process EXCEPT !.episodes = @ + 1]
    /\ UNCHANGED agentVars

\* weight_agent::~weight_agent (lines 87-90) with save_weights, when the
\* program returns
DestroyAgent ==
    /\ process.status = "running"
    /\ process' = IF process.options.save = "fails" THEN exit(process, -1, "save")
                  ELSE IF process.options.save = "opens"
                  THEN [process EXCEPT !.status = "finished", !.written = @ \cup {net}]
                  ELSE [process EXCEPT !.status = "finished"]
    /\ UNCHANGED agentVars

StorageNext ==
    \/ ConstructAgent
    \/ PlayEpisode
    \/ DestroyAgent

SpecStorage ==
    StorageInit /\ [][StorageNext /\ UNCHANGED <<boardVars, statVars, twin>>]_vars

(***************************************************************************)
(* Specification of the danger heuristic: calculate_danger_level called    *)
(* once on an input board.                                                 *)
(***************************************************************************)
DangerInit ==
    /\ ProcessIdle
    /\ StatIdle
    /\ TwinIdle
    /\ input \in InputBoards
    /\ result = <<"init">>
    /\ lookups = <<>>
    /\ calls = <<>>
    /\ ConfigIdle
    /\ LearnIdle(<<>>)
    /\ enable_learning = TRUE
    /\ net0 = net
    /\ BoardIdle

CalculateDangerLevel ==
    /\ result[1] = "init"
    /\ result' = <<"calculate_danger_level", calculate_danger_level(input)>>
    /\ UNCHANGED <<configVars, learnVars, driverVars, input, lookups, net0, calls>>

DangerNext == CalculateDangerLevel

SpecDanger == DangerInit /\ [][DangerNext /\ UNCHANGED <<boardVars, statVars, twin, process>>]_vars

(***************************************************************************)
(* Specification of statistics (src/statistics.h): an object constructed   *)
(* with total, block and limit, then open_episode, close_episode and       *)
(* operator>> in any order.  An episode record is modelled by the ordinal  *)
(* of the open_episode call that made it (0 for a record read from a       *)
(* stream) and by whether close_episode was called on it.                  *)
(***************************************************************************)
\* the record data.emplace_back() makes and episode::open_episode starts
OpenedEpisode(k) == [episode |-> k, closed |-> FALSE]

\* episode::close_episode on a record
ClosedEpisode(record) == [record EXCEPT !.closed = TRUE]

\* the record operator>> of episode reads from a non-empty line
ParsedEpisode(line) == [episode |-> 0, closed |-> TRUE]

\* std::deque::pop_front kept: the front record is not removed
pop_front_keeps(d) == d

\* std::deque::pop_front
pop_front(d) == Tail(d)

\* the streams operator>> is given: up to MaxLines lines, "" an empty line
Streams == UNION {[1..n -> {"", "episode"}] : n \in 0..MaxLines}

\* the loop of operator>> (lines 174-177): one record appended per line,
\* up to the end of the stream or the first empty line
RECURSIVE ReadLines(_, _)
ReadLines(in, d) ==
    IF in = <<>> \/ Head(in) = "" THEN d
    ELSE ReadLines(Tail(in), Append(d, ParsedEpisode(Head(in))))

Max(a, b) == IF a >= b THEN a ELSE b

StatisticsInit ==
    /\ ProcessIdle
    /\ TwinIdle
    /\ \E t \in 1..MaxLimit, b \in 0..(MaxLimit - 1), l \in 0..MaxLimit :
           statistics(t, b, l)
    /\ AgentIdle
    /\ BoardIdle

\* statistics::open_episode (lines 138-142).  limit is at least 1 here, and
\* count >= 1 only once a record was appended, so that pop_front is never
\* called on an empty deque.
StatOpenEpisode ==
    /\ ~aborted
    /\ opened < MaxEpisodes
    /\ opened' = opened + 1
    /\ count' = count + 1
    /\ data' = Append(IF count >= limit THEN pop_front(data) ELSE data,
                      OpenedEpisode(opened + 1))
    /\ UNCHANGED <<total, block, limit, loads, aborted>>

\* statistics::close_episode (lines 144-154); show_progress and show only
\* read the object.  data.back() of an empty deque is undefined: nothing of
\* the object changes or the process ends.
StatCloseEpisode ==
    /\ ~aborted
    /\ IF data = <<>>
       THEN /\ aborted' \in BOOLEAN
            /\ data' = data
       ELSE /\ aborted' = FALSE
            /\ data' = [data EXCEPT ![Len(data)] = ClosedEpisode(data[Len(data)])]
    /\ UNCHANGED <<total, block, limit, count, opened, loads>>

\* operator>>(std::istream&, statistics&) (lines 173-181)
StatLoad(in) ==
    /\ ~aborted
    /\ loads < MaxLoads
    /\ loads' = loads + 1
    /\ data' = ReadLines(in, data)
    /\ total' = Max(total, Len(data'))
    /\ count' = Len(data')
    /\ UNCHANGED <<block, limit, opened, aborted>>

StatisticsNext ==
    \/ StatOpenEpisode
    \/ StatCloseEpisode
    \/ \E in \in Streams : StatLoad(in)

SpecStatistics ==
    StatisticsInit /\ [][StatisticsNext /\ UNCHANGED <<boardVars, agentVars, twin, process>>]_vars

(***************************************************************************)
(* Specification of a game: the driver applies legal place and legal slide *)
(* actions to the board and ends the game when check_for_win holds after a *)
(* slide.  asked counts the actions applied, playing holds until the game  *)
(* has ended.  The game starts from the empty board or is taken up at a    *)
(* board of a game in progress.                                            *)
(***************************************************************************)
\* (mutant) the game ends with three 8192
has_three_8192(b) == Cardinality({i \in Cells : b[i] = 13}) >= 3

\* bool check_for_win(const board& b) { return b.has_two_8192(); }
check_for_win(b) == has_two_8192(b)

\* boards of a game in progress, none with two 8192
GameBoards ==
    {EmptyBoard, DangerBoard, OneTargetBoard,
     BoardOf(<<12, 12, 11, 11,  0, 0, 0, 0,  0, 0, 0, 0,  0, 0, 0, 0>>),
     BoardOf(<<13, 12, 11, 11,  0, 0, 0, 0,  0, 0, 0, 0,  0, 0, 0, 0>>),
     BoardOf(<<13, 0, 0, 0,  12, 12, 12, 12,  0, 0, 0, 0,  0, 0, 0, 0>>)}

GameInit ==
    /\ ProcessIdle
    /\ StatIdle
    /\ TwinIdle
    /\ tile \in GameBoards
    /\ prev = tile
    /\ ret = 0
    /\ op = <<"init">>
    /\ ConfigIdle
    /\ net = <<>>
    /\ eligibility_traces = <<>>
    /\ current_episode = <<>>
    /\ enable_learning = TRUE
    /\ move_count = 0
    /\ playing = TRUE
    /\ asked = 0
    /\ CallIdle

\* a place action applied by the driver; an illegal one is not applied
GamePlace(pos, t) ==
    /\ playing
    /\ asked < MaxPlies
    /\ place(tile, pos, t).reward # -1
    /\ tile' = place(tile, pos, t).tile
    /\ ret' = place(tile, pos, t).reward
    /\ prev' = tile
    /\ op' = <<"place", pos, t>>
    /\ asked' = asked + 1
    /\ UNCHANGED playing

\* a slide action applied by the driver, followed by check_for_win
GameSlide(code) ==
    /\ playing
    /\ asked < MaxPlies
    /\ slide(tile, code).reward # -1
    /\ tile' = slide(tile, code).tile
    /\ ret' = slide(tile, code).reward
    /\ prev' = tile
    /\ op' = <<"slide", code>>
    /\ asked' = asked + 1
    /\ playing' = ~check_for_win(tile')

GameNext ==
    \/ \E pos \in Cells, t \in {1, 2} : GamePlace(pos, t)
    \/ \E code \in 0..3 : GameSlide(code)

SpecGame ==
    GameInit /\ [][GameNext /\ UNCHANGED <<configVars, learnVars, callVars, statVars, twin, process>>]_vars

(***************************************************************************)
(* Claims about the board engine (checked under SpecBoard).                *)
(***************************************************************************)
\* C1: for every board and direction, slide returns the illegal sentinel -1
\* if and only if the board after the call equals the board before it; a
\* slide that does not report illegal returns a value >= 0.
C1_SlideIllegalIffUnchanged ==
    op[1] = "slide" => /\ (ret = -1) <=> (tile = prev)
                       /\ ret # -1 => ret >= 0

\* a slide reported illegal on a board that holds tiles, and left it alone
C1_Witness ==
    /\ op[1] = "slide"
    /\ ret = -1
    /\ prev # EmptyBoard
    /\ tile = prev

\* Reference for C2: the tiles of a row, left to right, without the gaps
RECURSIVE NonZero(_)
NonZero(q) ==
    IF q = <<>> THEN <<>>
    ELSE IF Head(q) = 0 THEN NonZero(Tail(q))
    ELSE <<Head(q)>> \o NonZero(Tail(q))

\* pairs of equal neighbours merge, leftmost pair first, each tile once
RECURSIVE MergePairs(_)
MergePairs(q) ==
    IF Len(q) < 2 THEN q
    ELSE IF q[1] = q[2] THEN <<q[1] + 1>> \o MergePairs(Tail(Tail(q)))
    ELSE <<q[1]>> \o MergePairs(Tail(q))

\* the sum over those merges of 2^(rank of the merged tile)
RECURSIVE MergeScore(_)
MergeScore(q) ==
    IF Len(q) < 2 THEN 0
    ELSE IF q[1] = q[2] THEN 2 ^ (q[1] + 1) + MergeScore(Tail(Tail(q)))
    ELSE MergeScore(Tail(q))

RowSeq(b, r) == <<At(b, r, 0), At(b, r, 1), At(b, r, 2), At(b, r, 3)>>

PadRow(q) == [i \in 1..4 |-> IF i <= Len(q) THEN q[i] ELSE 0]

\* C2: slide_left turns every row into its left-compaction with merging of
\* equal neighbours, leftmost pair first and each tile merged at most once,
\* and a legal slide_left returns the sum over the merges of 2^(merged rank).
C2_SlideLeftMerges ==
    (op[1] = "slide" /\ op[2] % 4 = 3) =>
        /\ \A r \in Idx : RowSeq(tile, r) = PadRow(MergePairs(NonZero(RowSeq(prev, r))))
        /\ ret # -1 =>
              ret = MergeScore(NonZero(RowSeq(prev, 0))) + MergeScore(NonZero(RowSeq(prev, 1)))
                    + MergeScore(NonZero(RowSeq(prev, 2))) + MergeScore(NonZero(RowSeq(prev, 3)))

\* the row [1,1,1,0] slid left to [2,1,0,0] for a reward of 2^2
C2_Witness ==
    /\ op = <<"slide", 3>>
    /\ RowSeq(prev, 0) = <<1, 1, 1, 0>>
    /\ RowSeq(tile, 0) = <<2, 1, 0, 0>>
    /\ ret = 4

(***************************************************************************)
(* Claims about the pattern evaluator (checked under SpecEval).            *)
(***************************************************************************)
\* the image of board b under the symmetry of the square that turns it
\* quarter turns clockwise, after mirroring it left-right when mirror holds
RECURSIVE Turned(_, _)
Turned(b, quarter) ==
    IF quarter = 0 THEN b
    ELSE Turned([i \in Cells |-> b[(3 - (i % 4)) * 4 + (i \div 4)]], quarter - 1)

Mirrored(b) == [i \in Cells |-> b[(i \div 4) * 4 + (3 - (i % 4))]]

\* the eight symmetric images of b, one per symmetry
DihedralImages(b) ==
    <<Turned(b, 0), Turned(b, 1), Turned(b, 2), Turned(b, 3),
      Turned(Mirrored(b), 0), Turned(Mirrored(b), 1), Turned(Mirrored(b), 2),
      Turned(Mirrored(b), 3)>>

BagOfSeq(q) == BagOfAll(LAMBDA k : q[k], SetToBag(DOMAIN q))

C5_EvaluateRotationInvariant ==
    (result[1] = "evaluate_board" /\ net = HandStore) =>
        result[2] = evaluate_board(net, rotate_clockwise(input))

(***************************************************************************)
(* Claims about the learning engine (checked under Spec and SpecUpdate).   *)
(***************************************************************************)
\* C3: in every take_action call with learning enabled and at least one
\* step recorded earlier in the episode, one TD update is applied, to the
\* most recently recorded earlier step, with td_error = prev.reward +
\* lambda * evaluate(current board) - prev.value_estimate; also when the
\* board has no legal slide.  (result[3] is the number of steps recorded
\* before the call, so the step meant is current_episode[result[3]].)
C3_UpdateOfPreviousStep ==
    (result[1] = "take_action" /\ enable_learning /\ result[3] >= 1) =>
        LET prev_step == current_episode[result[3]] IN
        /\ Len(calls) = 1
        /\ calls[1].step = result[3]
        /\ calls[1].state = prev_step.state
        /\ calls[1].td_error = prev_step.reward + lambda * evaluate_board(net0, input)
                               - prev_step.evaluation

\* the value the claim C6 gives the slide in direction d on board b
ActionValue(n, b, d, penalty, bonus) ==
    LET s == slide(b, d)
    IN  s.reward + evaluate_board(n, s.tile) - calculate_danger_level(s.tile) * penalty * 100
        + Cardinality({i \in Cells : s.tile[i] = 0}) * bonus

LegalDirections(b) == {d \in 0..3 : slide(b, d).reward # -1}

\* C6: when some direction is legal, take_action returns a legal slide of
\* maximal action value, the first such in the order up, right, down, left.
C6_FirstMaximalLegalSlide ==
    (result[1] = "take_action" /\ LegalDirections(input) # {}) =>
        /\ result[2].type = "slide"
        /\ result[2].op \in LegalDirections(input)
        /\ \A d \in LegalDirections(input) :
              LET v == ActionValue(net0, input, d, danger_penalty_factor, survival_bonus)
                  best == ActionValue(net0, input, result[2].op, danger_penalty_factor,
                                      survival_bonus)
              IN  /\ v <= best
                  /\ v = best => d >= result[2].op

\* right (1) was returned although left (3) has the same, maximal, value
C6_Witness ==
    /\ result[1] = "take_action"
    /\ input = PairBoard
    /\ result[2] = SlideAction(1)
    /\ ActionValue(net0, input, 3, danger_penalty_factor, survival_bonus)
       = ActionValue(net0, input, 1, danger_penalty_factor, survival_bonus)
    /\ 0 \notin LegalDirections(input)

\* the base-16 index of the four cells of a pattern, ranks capped at 15
FeatureIndex(b, pattern) ==
    Min(b[pattern[1]], 15) + 16 * Min(b[pattern[2]], 15) + 256 * Min(b[pattern[3]], 15)
    + 4096 * Min(b[pattern[4]], 15)

Transposed(b) == [i \in Cells |-> b[(i % 4) * 4 + (i \div 4)]]

\* what update(state, td_error) adds to the weight at index of table i
UpdateIncrement(state, td_error, i, index) ==
    (IF index = FeatureIndex(state, patterns[i]) THEN alpha * td_error ELSE 0)
    + (IF index = FeatureIndex(Mirrored(state), patterns[i])
       THEN (alpha * td_error) \div 8 ELSE 0)
    + (IF index = FeatureIndex(Transposed(state), patterns[i])
       THEN (alpha * td_error) \div 8 ELSE 0)

TouchedIndices(state, i) ==
    {FeatureIndex(state, patterns[i]), FeatureIndex(Mirrored(state), patterns[i]),
     FeatureIndex(Transposed(state), patterns[i])}

FinalRewardTier(flag, b) ==
    CASE flag = "win" -> -50000
      [] flag = "lose" /\ Cardinality({i \in Cells : b[i] = 13}) = 1 -> 10000
      [] flag = "lose" /\ Cardinality({i \in Cells : b[i] = 13}) = 0
                       /\ (\E i \in Cells : b[i] >= 12) -> 5000
      [] flag = "lose" /\ Cardinality({i \in Cells : b[i] = 13}) = 0
                       /\ ~(\E i \in Cells : b[i] >= 12) -> 1000
      [] flag = "lose" /\ Cardinality({i \in Cells : b[i] = 13}) >= 2 -> 1000
      [] OTHER -> 0

\* C8: the final reward close_episode(tag) uses on a non-empty trajectory
\* (the error of its first update plus the value estimate of the last step)
\* is -50000 for "win"; for "lose" 10000 when the after-state of the last
\* step has exactly one rank-13 cell, 5000 when it has none and its maximum
\* rank is >= 12, 1000 otherwise; and 0 for every other tag.
C8_FinalReward ==
    (result[1] = "close_episode" /\ calls # <<>>) =>
        LET last_step == current_episode[Len(current_episode)]
        IN  calls[1].td_error + last_step.evaluation
            = FinalRewardTier(result[2], last_step.next_state)

\* an episode closed as "lose" whose last step left exactly one 8192
C8_Witness ==
    /\ result = <<"close_episode", "lose">>
    /\ calls # <<>>
    /\ count_tile_value(current_episode[Len(current_episode)].next_state, 13) = 1
    /\ calls[1].td_error + current_episode[Len(current_episode)].evaluation = 10000

\* C9: close_episode with learning enabled and n >= 1 recorded steps applies
\* update exactly n times, once to each recorded step's state, from the last
\* step to the first, the error of the last step being final_reward -
\* last.value_estimate; with an empty trajectory or learning disabled it
\* applies no update.
C9_BackwardReplay ==
    result[1] = "close_episode" =>
        LET n == Len(current_episode) IN
        IF enable_learning /\ n >= 1
        THEN /\ Len(calls) = n
             /\ \A k \in 1..n : /\ calls[k].step = n + 1 - k
                                /\ calls[k].state = current_episode[n + 1 - k].state
             /\ calls[1].td_error = FinalRewardTier(result[2], current_episode[n].next_state)
                                    - current_episode[n].evaluation
        ELSE calls = <<>>

\* an episode of two recorded steps closed with learning enabled
C9_Witness ==
    /\ result[1] = "close_episode"
    /\ enable_learning
    /\ Len(current_episode) = 2
    /\ Len(calls) = 2
    /\ calls[1].state = current_episode[2].state
    /\ calls[2].state = current_episode[1].state

\* C10 as claimed: as soon as close_episode returns the stored trajectory is
\* empty (episode length 0).
C10_EmptyAfterClose ==
    result[1] = "close_episode" => Len(current_episode) = 0

\* C10 as amended: close_episode leaves the stored trajectory as it was, and
\* it is open_episode that empties it.
C10_KeptUntilOpen ==
    [][/\ result'[1] = "close_episode" => current_episode' = current_episode
       /\ result'[1] = "open_episode" => current_episode' = <<>>]_vars

\* a closed episode whose steps are still stored while the agent is idle
C10_Witness ==
    /\ result[1] = "close_episode"
    /\ ~playing
    /\ Len(current_episode) >= 1

(***************************************************************************)
(* Further claims about the board engine (checked under SpecBoard).        *)
(***************************************************************************)
\* C17: place(pos, rank) returns -1 and leaves the board unchanged when
\* pos >= 16, the cell at pos is not empty, or rank is neither 1 nor 2;
\* otherwise it returns 0 and the board differs from the one given in
\* exactly the cell pos, which now holds rank.
C17_PlaceFrame ==
    op[1] = "place" =>
        IF op[2] >= 16 \/ op[3] \notin {1, 2} \/ prev[op[2]] # 0
        THEN ret = -1 /\ tile = prev
        ELSE /\ ret = 0
             /\ tile[op[2]] = op[3]
             /\ {i \in Cells : tile[i] # prev[i]} = {op[2]}

\* a tile of rank 2 placed on the empty last cell of a board with tiles
C17_Witness ==
    /\ op = <<"place", 15, 2>>
    /\ ret = 0
    /\ prev # EmptyBoard
    /\ prev[15] = 0
    /\ tile[15] = 2

\* the four cells of line k of board b read in the order in which a slide in
\* direction d (0 up, 1 right, 2 down, 3 left) meets them
LineSeq(b, d, k) ==
    CASE d = 0 -> <<At(b, 0, k), At(b, 1, k), At(b, 2, k), At(b, 3, k)>>
      [] d = 1 -> <<At(b, k, 3), At(b, k, 2), At(b, k, 1), At(b, k, 0)>>
      [] d = 2 -> <<At(b, 3, k), At(b, 2, k), At(b, 1, k), At(b, 0, k)>>
      [] d = 3 -> <<At(b, k, 0), At(b, k, 1), At(b, k, 2), At(b, k, 3)>>

\* the number of merges of a line without gaps: equal neighbours merge,
\* first pair first, each tile once
RECURSIVE MergeCount(_)
MergeCount(q) ==
    IF Len(q) < 2 THEN 0
    ELSE IF q[1] = q[2] THEN 1 + MergeCount(Tail(Tail(q)))
    ELSE MergeCount(Tail(q))

Merges(b, d) ==
    MergeCount(NonZero(LineSeq(b, d, 0))) + MergeCount(NonZero(LineSeq(b, d, 1)))
    + MergeCount(NonZero(LineSeq(b, d, 2))) + MergeCount(NonZero(LineSeq(b, d, 3)))

NonEmpty(b) == Cardinality({i \in Cells : b[i] # 0})

\* C18: no slide increases the number of non-empty cells: after a slide in
\* any direction the number is lower than before by exactly the number of
\* merges performed.
C18_SlideLosesOneCellPerMerge ==
    op[1] = "slide" =>
        /\ NonEmpty(tile) <= NonEmpty(prev)
        /\ NonEmpty(tile) = NonEmpty(prev) - Merges(prev, op[2] % 4)

\* a column of four equal tiles slid down: two merges, two cells fewer
C18_Witness ==
    /\ op = <<"slide", 2>>
    /\ Merges(prev, 2) = 2
    /\ NonEmpty(prev) = 4
    /\ NonEmpty(tile) = 2
    /\ ret > 0

(***************************************************************************)
(* Claims about the agent's frame and the board predicates.                *)
(***************************************************************************)
\* C11: while learning is disabled (by the learning option or by
\* set_learning_enabled(false)) no call of open_episode, take_action,
\* check_for_win or close_episode changes any weight of any table.
C11_DisabledLearningKeepsWeights ==
    [][~enable_learning => net' = net]_vars

\* an episode with a recorded step closed as "win" after learning was
\* switched off, with a learning rate and a store that an update would move
C11_Witness ==
    /\ result = <<"close_episode", "win">>
    /\ ~enable_learning
    /\ alpha = 8
    /\ net = HandStore
    /\ Len(current_episode) >= 1
    /\ calls = <<>>

\* C12: after every open_episode call, whatever preceded it, the trajectory
\* is empty and every eligibility trace of every table is 0, and the call
\* changes no weight.
C12_OpenEpisodeResets ==
    [][result'[1] = "open_episode" =>
          /\ current_episode' = <<>>
          /\ \A i \in DOMAIN eligibility_traces' :
                 \A k \in DOMAIN eligibility_traces'[i].w :
                     eligibility_traces'[i].w[k] = 0
          /\ net' = net]_vars

\* open_episode called after both actions were asked for and updates moved
\* the weights (and set traces) of a store
C12_Witness ==
    /\ result = <<"open_episode">>
    /\ asked >= 2
    /\ net # <<>>
    /\ net \notin AgentStores
    /\ eligibility_decay = 1

(***************************************************************************)
(* Claims about the danger heuristic (checked under SpecDanger).           *)
(***************************************************************************)
\* the board with n13 cells of rank 13, then n12 cells of rank 12, and
\* nothing else
CountsBoard(n13, n12) ==
    [i \in Cells |-> IF i < n13 THEN 13 ELSE IF i < n13 + n12 THEN 12 ELSE 0]

Count(b, rank) == Cardinality({i \in Cells : b[i] = rank})

\* the boards that differ from b in one cell, of a rank other than 12 and
\* 13 in b and of rank `rank` in them: one count is higher by one
OneMore(b, rank) == {[b EXCEPT ![i] = rank] : i \in {j \in Cells : b[j] \notin {12, 13}}}

\* C14: danger_level takes only the values 0.0, 0.4, 0.7, 1.0 (0, 4, 7, 10
\* tenths), depends on the board only through its numbers of rank-13 and
\* rank-12 cells, and does not decrease when one of the two numbers
\* increases while the other stays.
C14_DangerLevelEscalates ==
    result[1] = "calculate_danger_level" =>
        /\ result[2] \in {0, 4, 7, 10}
        /\ result[2] = calculate_danger_level(CountsBoard(Count(input, 13), Count(input, 12)))
        /\ \A rank \in {12, 13} : \A b \in OneMore(input, rank) :
               calculate_danger_level(b) >= result[2]

\* three 4096 and one 8192 in a row among other tiles: level 1.0
C14_Witness ==
    /\ result = <<"calculate_danger_level", 10>>
    /\ Count(input, 12) = 3
    /\ Count(input, 13) = 1

\* C15: on every board without a rank-12 cell danger_level is 0.0, whatever
\* the number of rank-13 cells.
C15_NoDangerWithout4096 ==
    (result[1] = "calculate_danger_level" /\ Count(input, 12) = 0) => result[2] = 0

\* two 8192 and no 4096: the win predicate holds and the level is 0.0
C15_Witness ==
    /\ result = <<"calculate_danger_level", 0>>
    /\ Count(input, 13) = 2
    /\ Count(input, 12) = 0
    /\ has_two_8192(input)

(***************************************************************************)
(* Claims about the win predicate (checked under Spec).                    *)
(***************************************************************************)
\* C13: check_for_win, that is has_two_8192, returns true exactly when at
\* least two of the 16 cells hold rank 13, whatever the other cells hold,
\* and the call changes neither weights nor traces nor the trajectory.
C13_WinIffTwoTargets ==
    [][result'[1] = "check_for_win" =>
          /\ result'[2] = (\E i, j \in Cells : i # j /\ input'[i] = 13 /\ input'[j] = 13)
          /\ net' = net
          /\ eligibility_traces' = eligibility_traces
          /\ current_episode' = current_episode]_vars

\* check_for_win returned true on a board with three 8192, inside an episode
\* with a recorded step and traces set by an update
C13_Witness ==
    /\ result = <<"check_for_win", TRUE>>
    /\ Count(input, 13) = 3
    /\ Len(current_episode) >= 1
    /\ \E i \in DOMAIN eligibility_traces : eligibility_traces[i].w # <<>>

(***************************************************************************)
(* Claims about the board symmetries (checked under SpecSymmetry).         *)
(***************************************************************************)
\* C16: rotate_clockwise applied 4 times gives back the board, so does
\* reflect_horizontal applied twice, and transpose followed by
\* reflect_horizontal gives the board rotate_clockwise gives.
C16_SymmetryIdentities ==
    /\ op = <<"rotate_clockwise", "rotate_clockwise", "rotate_clockwise", "rotate_clockwise">>
           => tile = prev
    /\ op = <<"reflect_horizontal", "reflect_horizontal">> => tile = prev
    /\ op = <<"transpose", "reflect_horizontal">> => tile = rotate_clockwise(prev)

\* the board of 16 different cells after four clockwise rotations, none of
\* the rotations before having given it back
C16_Witness ==
    /\ op = <<"rotate_clockwise", "rotate_clockwise", "rotate_clockwise", "rotate_clockwise">>
    /\ prev = CellNames
    /\ tile = CellNames
    /\ rotate_clockwise(prev) # prev
    /\ rotate_clockwise(rotate_clockwise(prev)) # prev
    /\ rotate_clockwise(rotate_clockwise(rotate_clockwise(prev))) # prev

(***************************************************************************)
(* Claims about statistics (checked under SpecStatistics).                 *)
(***************************************************************************)
\* C19: on an object that only open_episode and close_episode were called
\* on, the stored records are min(episodes opened, limit) many and are the
\* most recently opened episodes, oldest first.
C19_WindowOfMostRecent ==
    (loads = 0 /\ ~aborted) =>
        /\ Len(data) = Min(opened, limit)
        /\ \A i \in 1..Len(data) : data[i].episode = opened - Len(data) + i

\* two more episodes opened than the limit of 2 or more keeps: the oldest
\* two are gone, the kept ones closed except the last
C19_Witness ==
    /\ loads = 0
    /\ ~aborted
    /\ limit >= 2
    /\ opened = limit + 2
    /\ Len(data) = limit
    /\ data[1].episode = 3
    /\ data[1].closed
    /\ ~data[Len(data)].closed

\* C20: the number of stored records never exceeds limit.
C20_WindowWithinLimit == ~aborted => Len(data) <= limit

\* pop_front is only called on a deque that holds a record
PopFrontDefined == (~aborted /\ count >= limit) => data # <<>>

(***************************************************************************)
(* Claims about the directions of slide and the value of the tiles         *)
(* (checked under SpecBoard).                                              *)
(***************************************************************************)
\* the number of quarter turns clockwise that make direction d (0 up,
\* 1 right, 2 down, 3 left) point left
TurnsToLeft(d) == CASE d = 0 -> 3 [] d = 1 -> 2 [] d = 2 -> 1 [] d = 3 -> 0

\* the board and reward of: turn b so that d points left, slide_left, turn back
SlideByTurning(b, d) ==
    LET s == slide_left(Turned(b, TurnsToLeft(d)))
    IN  [tile |-> Turned(s.tile, (4 - TurnsToLeft(d)) % 4), reward |-> s.reward]

\* column k of b, top to bottom
ColSeq(b, k) == <<At(b, 0, k), At(b, 1, k), At(b, 2, k), At(b, 3, k)>>

\* C22: slide(opcode) slides in direction opcode & 3 (0 up, 1 right, 2 down,
\* 3 left): the board and the reward are those of turning the board so
\* that the direction points left, slide_left, turning back; the column
\* [1,1,1,0] (top to bottom) slides up to [2,1,0,0] and down to [0,0,1,2].
C22_SlideDirections ==
    op[1] = "slide" =>
        /\ tile = SlideByTurning(prev, op[2] % 4).tile
        /\ ret = SlideByTurning(prev, op[2] % 4).reward
        /\ \A k \in Idx : ColSeq(prev, k) = <<1, 1, 1, 0>> =>
              /\ op[2] % 4 = 0 => ColSeq(tile, k) = <<2, 1, 0, 0>>
              /\ op[2] % 4 = 2 => ColSeq(tile, k) = <<0, 0, 1, 2>>

\* the column [1,1,1,0] slid down by opcode 6, whose low bits are 2
C22_Witness ==
    /\ op = <<"slide", 6>>
    /\ ColSeq(prev, 3) = <<1, 1, 1, 0>>
    /\ ColSeq(tile, 3) = <<0, 0, 1, 2>>
    /\ ret = 4

\* the sum of 2^rank over the non-empty cells of b
RECURSIVE TileSumFrom(_, _)
TileSumFrom(b, i) ==
    IF i = 16 THEN 0
    ELSE (IF b[i] = 0 THEN 0 ELSE 2 ^ b[i]) + TileSumFrom(b, i + 1)

TileSum(b) == TileSumFrom(b, 0)

\* C29: a slide, legal or not, leaves the sum of 2^rank over the non-empty
\* cells as it was; a place that is accepted raises it by 2 or 4, one that
\* is refused leaves it.
C29_SlideConservesTileSum ==
    /\ op[1] = "slide" => TileSum(tile) = TileSum(prev)
    /\ op[1] = "place" =>
          IF ret = -1 THEN TileSum(tile) = TileSum(prev)
          ELSE TileSum(tile) - TileSum(prev) = 2 ^ op[3] /\ op[3] \in {1, 2}

\* two 4096 tiles merged into an 8192 tile by a legal slide up: the sum
\* stays 8192
C29_Witness ==
    /\ op = <<"slide", 0>>
    /\ ret = 8192
    /\ TileSum(prev) = 8192
    /\ TileSum(tile) = 8192
    /\ Count(tile, 13) = 1

\* C25: a slide that is legal on a board with at most one 8192 and leads to
\* a board with two 8192 starts from a board whose danger level is at
\* least 0.4.
C25_WinOnlyFromDanger ==
    (/\ op[1] = "slide"
     /\ Count(prev, 13) <= 1
     /\ ret # -1
     /\ has_two_8192(tile)) => calculate_danger_level(prev) >= 4

\* four 4096 and no 8192, level 0.4, slid into two 8192
C25_Witness ==
    /\ op[1] = "slide"
    /\ Count(prev, 13) = 0
    /\ Count(prev, 12) = 4
    /\ ret = 16384
    /\ has_two_8192(tile)
    /\ calculate_danger_level(prev) = 4

(***************************************************************************)
(* Claims about a game (checked under SpecGame).                           *)
(***************************************************************************)
\* C24: in a game of legal places and legal slides that ends as soon as
\* check_for_win holds after a slide, every board an action is applied to
\* has at most one 8192 and no tile above 8192.
C24_AtMostOneTarget ==
    [][asked' = asked + 1 => /\ Count(tile, 13) <= 1
                             /\ \A i \in Cells : tile[i] <= 13]_vars

\* the third action of a game, applied to a board with one 8192 and a
\* 4096, after which the game goes on
C24_Witness ==
    /\ playing
    /\ asked = 3
    /\ Count(prev, 13) = 1
    /\ Count(prev, 12) >= 1
    /\ Count(tile, 13) = 1

(***************************************************************************)
(* Claims about the selection of actions (checked under SpecSelect).       *)
(***************************************************************************)
\* take_action returns a slide that is legal on the board whenever a
\* direction is legal, and the empty action exactly when none is; the
\* empty action appends no step
SelectReturnsLegal ==
    result[1] = "take_action" =>
        /\ LegalDirections(input) # {} =>
              result[2].type = "slide" /\ result[2].op \in LegalDirections(input)
        /\ result[2].type = "none" <=> LegalDirections(input) = {}
        /\ result[2].type = "none" => Len(current_episode) = result[3]

\* C23: take_action returns a slide that is legal on the board whenever a
\* direction is legal, and the empty action if and only if none is; the
\* empty action appends no step to the trajectory, and with learning
\* enabled every call that returns a slide appends exactly one step.
C23_OneStepPerSlide ==
    result[1] = "take_action" =>
        /\ SelectReturnsLegal
        /\ (enable_learning /\ result[2].type = "slide") =>
              Len(current_episode) = result[3] + 1

(***************************************************************************)
(* Claims about the trajectory (checked under Spec).                       *)
(***************************************************************************)
\* C27: every step of the trajectory is a legal transition: its action is
\* a slide that is legal on step.state, step.next_state is the board that
\* slide makes of step.state (and differs from it), step.reward is the
\* score of that slide (at least 0, never -1); and the trajectory is never
\* longer than the number of take_action calls since open_episode.
C27_StepsAreLegalTransitions ==
    /\ \A k \in 1..Len(current_episode) :
          LET step == current_episode[k] IN
          /\ step.action_taken.type = "slide"
          /\ step.action_taken.op \in LegalDirections(step.state)
          /\ step.next_state = slide(step.state, step.action_taken.op).tile
          /\ step.next_state # step.state
          /\ step.reward = slide(step.state, step.action_taken.op).reward
          /\ step.reward >= 0
    /\ Len(current_episode) <= move_count

\* a trajectory of two steps, the first with a merge, shorter than the
\* number of take_action calls
C27_Witness ==
    /\ Len(current_episode) = 2
    /\ current_episode[1].reward > 0
    /\ current_episode[2].state # current_episode[1].state
    /\ move_count = 2

(***************************************************************************)
(* Claims about the eligibility decay (checked under SpecTwin).            *)
(***************************************************************************)
\* C26: two runs of the same calls on the same boards that differ only in
\* the decay option have the same weight tables after every call and
\* return the same action from every take_action.
C26_DecayWithoutInfluence ==
    /\ twin.decay # eligibility_decay
    /\ twin.net = net
    /\ result[1] = "take_action" => twin.action = result[2]

\* after a take_action that updated weights in both runs the traces differ
\* (kept in one run, decayed to 0 in the other) while the weights it
\* changed and the action it returned are the same
C26_Witness ==
    /\ twin.traces # eligibility_traces
    /\ net # net0
    /\ twin.net = net
    /\ result[1] = "take_action"
    /\ twin.action = result[2]
    /\ calls # <<>>

(***************************************************************************)
(* Claims about pattern lookup and update (checked under SpecPattern).     *)
(***************************************************************************)
\* every weight and trace set lies below the table length
WithinTables(tables) ==
    \A i \in DOMAIN tables : \A k \in DOMAIN tables[i].w : k >= 0 /\ k < tables[i].size

\* C28: for every table length and board, pattern lookup and pattern
\* update address the table only below its length: when the base-16 index
\* of the four pattern cells (ranks capped at 15) is below the length, the
\* lookup returns the weight at that index and the update changes the
\* weight and the trace at that index; otherwise the lookup returns 0 and
\* the update changes nothing.  Never is the index of only some of the
\* positions used.
C28_IndexWithinTable ==
    /\ WithinTables(net)
    /\ WithinTables(eligibility_traces)
    /\ result[1] \in {"evaluate_pattern", "update_pattern_weights"} =>
          LET i == result[2]
              index == FeatureIndex(input, patterns[i])
          IN  /\ result[3] = IF index < net0[i].size THEN index ELSE -1
              /\ result[1] = "evaluate_pattern" =>
                    result[4] = IF index < net0[i].size THEN WeightAt(net0[i], index) ELSE 0
              /\ result[1] = "update_pattern_weights" =>
                    IF index < net0[i].size
                    THEN /\ net = [net0 EXCEPT ![i].w =
                                      SetAt(@, index, WeightAt(net0[i], index) + alpha * result[4])]
                         /\ eligibility_traces[i].w = (index :> 1)
                    ELSE /\ net = net0
                         /\ \A j \in DOMAIN eligibility_traces : eligibility_traces[j].w = <<>>

\* a lookup in a table of length 17 on cells of ranks 1, 1, 0, 0: the loop
\* is left after the second position at index 17, and 0 is returned though
\* the table holds a weight at the index 1 of the first position
C28_Witness ==
    /\ result[1] = "evaluate_pattern"
    /\ net0[result[2]].size = 17
    /\ FeatureIndex(input, patterns[result[2]]) = 17
    /\ result[3] = -1
    /\ result[4] = 0
    /\ net0[result[2]].w[1] # 0

(***************************************************************************)
(* Claims about weight storage (checked under SpecStorage).                *)
(***************************************************************************)
\* C21: when the weight file cannot be opened for reading during load or
\* for writing during save, the process ends at once with exit code -1:
\* after a failed load no episode is played, and after either failure no
\* file has been or is written; the ended process takes no further step.
C21_StorageFailureIsFatal ==
    /\ [](process.failed # "none" =>
              /\ process.status = "exited"
              /\ process.code = -1
              /\ process.failed = "load" => process.episodes = 0
              /\ process.written = {})
    /\ [][process.status # "exited"]_vars

\* a load that failed on a process that was also given init= and save=:
\* the process ended with the zero-filled tables and wrote nothing
C21_Witness ==
    /\ process.failed = "load"
    /\ process.status = "exited"
    /\ process.options.init
    /\ process.options.save = "opens"
    /\ net = InitStore
    /\ process.written = {}

====
